---- MODULE Spec2Model ----
(***************************************************************************)
(* Tree State Engine of the knowledge website (docs/js/tree.js): the       *)
(* expand / collapse / select state machine driven by loadData, node       *)
(* clicks, selectNode, clearSelection and the deferred default selection.  *)
(***************************************************************************)
EXTENDS Integers, Sequences, FiniteSets, TLC

\* JavaScript null / undefined as they appear in a node's slug field.
JsNull == "<null>"
JsUndefined == "<undefined>"

\* "no node": selectedNode = null, a missing parent, no pending timer.
NoNode == 0

\* Longest config.defaultPath that is enumerated.
MaxPathLen == 2

\* Names config.defaultPath is drawn from.
PathNames == {"Interests", "Bicycles", "Kites"}

TreeNode(nm, sl, p) == [name |-> nm, slug |-> sl, parent |-> p]

\* The tree payloads handed to loadData. Each is the nested JSON value
\* flattened: entry n is a node, parent is the entry holding it in its
\* children array (0 for the root); siblings keep their array order.
TreeCatalog ==
  << \* Root -> Interests -> {Minerals, Bicycles}
     << TreeNode("Root", "about", 0),
        TreeNode("Interests", JsNull, 1),
        TreeNode("Minerals", "minerals", 2),
        TreeNode("Bicycles", "bicycles", 2) >>,
     \* branch with content, leaf with empty slug, branch without slug
     << TreeNode("Root", JsUndefined, 0),
        TreeNode("Interests", "interests", 1),
        TreeNode("Kites", "", 1),
        TreeNode("Bicycles", JsUndefined, 2),
        TreeNode("Minerals", "minerals", 4) >>,
     \* a single root
     << TreeNode("Root", "about", 0) >>,
     \* two siblings of the same name, root with empty slug
     << TreeNode("Root", "", 0),
        TreeNode("Interests", JsNull, 1),
        TreeNode("Interests", "x", 1),
        TreeNode("Bicycles", "bicycles", 2),
        TreeNode("Kites", "kites", 3) >>,
     \* malformed: the root object has no name
     << TreeNode(JsUndefined, "about", 0),
        TreeNode("Interests", "interests", 1) >>,
     \* five levels below the root
     << TreeNode("Root", "about", 0),
        TreeNode("Making", JsNull, 1),
        TreeNode("Experiments", JsNull, 2),
        TreeNode("Kites", JsNull, 3),
        TreeNode("Frames", JsNull, 4),
        TreeNode("Joints", JsNull, 5),
        TreeNode("Notes", JsNull, 1) >> >>

\* The payload used where the depth of the tree matters.
DeepTree == 6

TreeIds == (1..Len(TreeCatalog)) \ {DeepTree}

Landings == {"collapsed", "expanded", "path"}

RECURSIVE SeqsUpTo(_, _)
SeqsUpTo(S, n) ==
  IF n = 0 THEN {<<>>}
  ELSE LET shorter == SeqsUpTo(S, n - 1)
       IN shorter \cup {Append(p, x) : p \in shorter, x \in S}

Paths == SeqsUpTo(PathNames, MaxPathLen)

VARIABLES
  defaultLanding,   \* config.defaultLanding
  defaultPath,      \* config.defaultPath
  data,             \* payload given to loadData (0: root still undefined)
  id,               \* d.id of every hierarchy node
  children,         \* d.children  (<<>> stands for null / undefined)
  _children,        \* d._children (<<>> stands for null / undefined)
  selectedNode,     \* NoNode stands for null
  isTreeExpanded,
  rendered,         \* nodes bound to a .node element by the last update
  exiting,          \* nodes whose element is still fading out
  nodeActive,       \* nodes whose element has class node--active
  linkActive,       \* nodes whose incoming link has class link--active
  timer,            \* target of the pending setTimeout, or NoNode
  currentWidth,     \* width of the container, as given to updateDimensions
  breakpoint,       \* getBreakpoint() of the window
  y,                \* d.y of the rendered nodes, as <<numerator, denominator>>
  enterAt,          \* per entering element: the node whose x0, y0 it starts at
  exitTo,           \* per leaving element: the node whose x, y it moves to
  calls,            \* onNodeSelect invocations made by the last step
  lastOp,           \* the last step taken and the node it was given
  dom,              \* the content panel's elements (text, html, display)
  visible,          \* content-section carries class 'visible'
  currentSlug,      \* ContentDisplay's currentSlug
  store,            \* window.__CONTENT_DATA__, the bundled records
  pending,          \* loadContent calls waiting for their fetch
  panelOp,          \* arguments and outcome of the last panel operation
  shell,            \* the app shell: how init ended, listeners installed
  tool,             \* the categorization script and the tree file it edits
  watch             \* the script in watch mode: the tree file and its runs

panelVars == << dom, visible, currentSlug, store, pending, panelOp >>

\* State outside the two front-end components.
outerVars == << shell, tool, watch >>

layoutVars == << currentWidth, breakpoint, y, enterAt, exitTo >>

vars == << defaultLanding, defaultPath, data, id, children, _children,
           selectedNode, isTreeExpanded, rendered, exiting, nodeActive,
           linkActive, timer, calls, lastOp, layoutVars, panelVars,
           outerVars >>

\* The engine's module-level state and node fields as one value.
St ==
  [ data |-> data, id |-> id, children |-> children, _children |-> _children,
    selectedNode |-> selectedNode, isTreeExpanded |-> isTreeExpanded,
    rendered |-> rendered, exiting |-> exiting, nodeActive |-> nodeActive,
    linkActive |-> linkActive, timer |-> timer, calls |-> calls,
    currentWidth |-> currentWidth, breakpoint |-> breakpoint, y |-> y,
    enterAt |-> enterAt, exitTo |-> exitTo ]

Commit(s) ==
  /\ data' = s.data
  /\ id' = s.id
  /\ children' = s.children
  /\ _children' = s._children
  /\ selectedNode' = s.selectedNode
  /\ isTreeExpanded' = s.isTreeExpanded
  /\ rendered' = s.rendered
  /\ exiting' = s.exiting
  /\ nodeActive' = s.nodeActive
  /\ linkActive' = s.linkActive
  /\ timer' = s.timer
  /\ calls' = s.calls
  /\ currentWidth' = s.currentWidth
  /\ breakpoint' = s.breakpoint
  /\ y' = s.y
  /\ enterAt' = s.enterAt
  /\ exitTo' = s.exitTo

----------------------------------------------------------------------------
\* The hierarchy built by d3.hierarchy(data, d => d.children)

NodesOf(t) == 1..Len(TreeCatalog[t])

root == 1

Parent(t, n) == TreeCatalog[t][n].parent

Name(t, n) == TreeCatalog[t][n].name

Slug(t, n) == TreeCatalog[t][n].slug

DataChildren(t, n) ==
  SelectSeq([i \in 1..Len(TreeCatalog[t]) |-> i], LAMBDA c : Parent(t, c) = n)

RECURSIVE ancestors(_, _)
ancestors(t, n) ==
  IF n = NoNode THEN <<>> ELSE <<n>> \o ancestors(t, Parent(t, n))

Range(seq) == {seq[i] : i \in 1..Len(seq)}

RECURSIVE Bfs(_, _)
Bfs(ch, queue) ==
  IF queue = <<>> THEN <<>>
  ELSE <<Head(queue)>> \o Bfs(ch, Tail(queue) \o ch[Head(queue)])

descendants(ch) == Bfs(ch, <<root>>)

IndexOf(seq, x) == CHOOSE i \in 1..Len(seq) : seq[i] = x

----------------------------------------------------------------------------
\* Predicates on nodes

isCollapsed(s) == s.children[root] = <<>>

isLeaf(s, d) == s.children[d] = <<>> /\ s._children[d] = <<>>

isRoot(s, d) == Parent(s.data, d) = NoNode

hasContent(s, d) == Slug(s.data, d) # JsNull /\ Slug(s.data, d) # JsUndefined

Truthy(v) == v \notin {JsNull, JsUndefined, ""}

\* Variant: the ancestor test compares display names instead of ids.
isOnActivePath_byName(s, d) ==
  IF s.selectedNode = NoNode THEN FALSE
  ELSE \E a \in Range(ancestors(s.data, s.selectedNode)) :
         Name(s.data, a) = Name(s.data, d)

isOnActivePath(s, d) ==
  IF s.selectedNode = NoNode THEN FALSE
  ELSE \E a \in Range(ancestors(s.data, s.selectedNode)) : s.id[a] = s.id[d]

nodeIsActive(s, d) == s.selectedNode # NoNode /\ isOnActivePath(s, d)

linkIsActive(s, d) ==
  IF s.selectedNode = NoNode THEN FALSE
  ELSE LET ancestorIds ==
             {s.id[a] : a \in Range(ancestors(s.data, s.selectedNode))}
       IN /\ s.id[d] \in ancestorIds
          /\ Parent(s.data, d) # NoNode
          /\ s.id[Parent(s.data, d)] \in ancestorIds

----------------------------------------------------------------------------
\* Expand / collapse

RECURSIVE collapse(_, _)
RECURSIVE collapseEach(_, _)
\* Variant: a collapsed node keeps its child array in both places.
collapse_copy(s, d) ==
  IF s.children[d] # <<>>
  THEN LET s1 == [s EXCEPT !._children[d] = s.children[d]]
       IN collapseEach(s1, s1._children[d])
  ELSE s

collapse(s, d) ==
  IF s.children[d] # <<>>
  THEN LET s1 == [s EXCEPT !._children[d] = s.children[d]]
           s2 == collapseEach(s1, s1._children[d])
       IN [s2 EXCEPT !.children[d] = <<>>]
  ELSE s

collapseEach(s, seq) ==
  IF seq = <<>> THEN s ELSE collapseEach(collapse(s, Head(seq)), Tail(seq))

\* Variant: collapsing through toggle also collapses the whole subtree.
toggle_deep(s, d) ==
  IF s.children[d] # <<>>
  THEN collapse(s, d)
  ELSE IF s._children[d] # <<>>
  THEN [s EXCEPT !.children[d] = s._children[d], !._children[d] = <<>>]
  ELSE s

\* Variant: collapsing through toggle forgets the children.
toggle_drop(s, d) ==
  IF s.children[d] # <<>>
  THEN [s EXCEPT !.children[d] = <<>>]
  ELSE IF s._children[d] # <<>>
  THEN [s EXCEPT !.children[d] = s._children[d], !._children[d] = <<>>]
  ELSE s

toggle(s, d) ==
  IF s.children[d] # <<>>
  THEN [s EXCEPT !._children[d] = s.children[d], !.children[d] = <<>>]
  ELSE IF s._children[d] # <<>>
  THEN [s EXCEPT !.children[d] = s._children[d], !._children[d] = <<>>]
  ELSE s

RECURSIVE expandAll(_, _)
RECURSIVE expandAllEach(_, _)
expandAll(s, d) ==
  LET s1 == IF s._children[d] # <<>>
            THEN [s EXCEPT !.children[d] = s._children[d],
                           !._children[d] = <<>>]
            ELSE s
  IN IF s1.children[d] # <<>> THEN expandAllEach(s1, s1.children[d]) ELSE s1

expandAllEach(s, seq) ==
  IF seq = <<>> THEN s ELSE expandAllEach(expandAll(s, Head(seq)), Tail(seq))

\* Array.prototype.find on a child array: the first child named targetName.
find(s, seq, targetName) ==
  LET hits == {i \in 1..Len(seq) : Name(s.data, seq[i]) = targetName}
  IN IF hits = {} THEN NoNode
     ELSE seq[CHOOSE i \in hits : \A j \in hits : i <= j]

RECURSIVE expandPath(_, _, _, _)
expandPath(s, node, pathArray, index) ==
  IF index >= Len(pathArray) THEN s
  ELSE LET s1 == IF s._children[node] # <<>>
                 THEN [s EXCEPT !.children[node] = s._children[node],
                                !._children[node] = <<>>]
                 ELSE s
           child == find(s1, s1.children[node], pathArray[index + 1])
       IN IF s1.children[node] # <<>> /\ child # NoNode
          THEN expandPath(s1, child, pathArray, index + 1)
          ELSE s1

\* Variant: a failed lookup returns the last matched node instead of null.
RECURSIVE findNodeByPath_lastMatch(_, _, _, _)
findNodeByPath_lastMatch(s, node, pathArray, index) ==
  IF index >= Len(pathArray) THEN node
  ELSE LET kids == IF s.children[node] # <<>> THEN s.children[node]
                   ELSE s._children[node]
           child == find(s, kids, pathArray[index + 1])
       IN IF kids = <<>> THEN node
          ELSE IF child # NoNode
          THEN findNodeByPath_lastMatch(s, child, pathArray, index + 1)
          ELSE node

RECURSIVE findNodeByPath(_, _, _, _)
findNodeByPath(s, node, pathArray, index) ==
  IF index >= Len(pathArray) THEN node
  ELSE LET kids == IF s.children[node] # <<>> THEN s.children[node]
                   ELSE s._children[node]
           child == find(s, kids, pathArray[index + 1])
       IN IF kids = <<>> THEN NoNode
          ELSE IF child # NoNode
          THEN findNodeByPath(s, child, pathArray, index + 1)
          ELSE NoNode

----------------------------------------------------------------------------
\* Rendering and selection

\* selection.text(d => d.data.name): null and undefined give the empty text.
label(s, d) ==
  IF Name(s.data, d) \in {JsNull, JsUndefined} THEN "" ELSE Name(s.data, d)

Max(a, b) == IF a >= b THEN a ELSE b

Margin(l, r) == [left |-> l, right |-> r]

\* d.depth, fixed by d3.hierarchy.
depth(s, d) == Len(ancestors(s.data, d)) - 1

getMaxVisibleDepth(s) ==
  IF s.data = 0 THEN 0
  ELSE LET ds == {depth(s, d) : d \in Range(descendants(s.children))}
       IN CHOOSE m \in ds : \A k \in ds : k <= m

getCurrentMargin(s) ==
  IF s.breakpoint = "desktop" THEN Margin(120, 150)
  ELSE IF s.breakpoint = "tablet" THEN Margin(100, 120)
  ELSE IF getMaxVisibleDepth(s) <= 1 THEN Margin(100, 100)
  ELSE Margin(10, 100)

\* A map from the nodes of S to the node v (no entry: <<>>).
MapTo(S, v) == IF S = {} THEN <<>> ELSE [n \in S |-> v]

\* Variant: a render leaves the link classes as they were.
update_staleLinks(s, source) ==
  LET margin == getCurrentMargin(s)
      nodes == Range(descendants(s.children))
      maxDepth == LET m == getMaxVisibleDepth(s) IN IF m = 0 THEN 1 ELSE m
      avail == s.currentWidth - margin.left - margin.right
      gone == (s.rendered \cup s.exiting) \ nodes
      s1 == [s EXCEPT !.rendered = nodes, !.exiting = gone]
  IN [s1 EXCEPT
        !.y = [d \in nodes |-> <<depth(s, d) * avail, Max(maxDepth, 4)>>],
        !.enterAt = MapTo(nodes \ (s.rendered \cup s.exiting), source),
        !.exitTo = MapTo(gone, source),
        !.nodeActive = {d \in nodes : nodeIsActive(s1, d)}
                         \cup (s.nodeActive \cap gone)]

\* Variant: the depth spacing has no minimum of four levels.
update_noMinimum(s, source) ==
  LET margin == getCurrentMargin(s)
      nodes == Range(descendants(s.children))
      links == nodes \ {root}
      maxDepth == LET m == getMaxVisibleDepth(s) IN IF m = 0 THEN 1 ELSE m
      avail == s.currentWidth - margin.left - margin.right
      gone == (s.rendered \cup s.exiting) \ nodes
      s1 == [s EXCEPT !.rendered = nodes, !.exiting = gone]
  IN [s1 EXCEPT
        !.y = [d \in nodes |-> <<depth(s, d) * avail, maxDepth>>],
        !.enterAt = MapTo(nodes \ (s.rendered \cup s.exiting), source),
        !.exitTo = MapTo(gone, source),
        !.linkActive = {d \in links : linkIsActive(s1, d)}
                         \cup (s.linkActive \cap gone),
        !.nodeActive = {d \in nodes : nodeIsActive(s1, d)}
                         \cup (s.nodeActive \cap gone)]

\* Variant: every element enters at, and leaves towards, its own parent.
update_byParent(s, source) ==
  LET margin == getCurrentMargin(s)
      nodes == Range(descendants(s.children))
      links == nodes \ {root}
      maxDepth == LET m == getMaxVisibleDepth(s) IN IF m = 0 THEN 1 ELSE m
      avail == s.currentWidth - margin.left - margin.right
      gone == (s.rendered \cup s.exiting) \ nodes
      new == nodes \ (s.rendered \cup s.exiting)
      s1 == [s EXCEPT !.rendered = nodes, !.exiting = gone]
  IN [s1 EXCEPT
        !.y = [d \in nodes |-> <<depth(s, d) * avail, Max(maxDepth, 4)>>],
        !.enterAt = IF new = {} THEN <<>>
                    ELSE [n \in new |-> IF n = root THEN root
                                        ELSE Parent(s.data, n)],
        !.exitTo = IF gone = {} THEN <<>>
                   ELSE [n \in gone |-> Parent(s.data, n)],
        !.linkActive = {d \in links : linkIsActive(s1, d)}
                         \cup (s.linkActive \cap gone),
        !.nodeActive = {d \in nodes : nodeIsActive(s1, d)}
                         \cup (s.nodeActive \cap gone)]

\* update(source). The depth coordinate d.y is kept as the exact fraction
\* depth * width / max(maxDepth, 4); a position on the breadth axis is known
\* by the node whose stored position it is.
update(s, source) ==
  LET margin == getCurrentMargin(s)
      nodes == Range(descendants(s.children))
      links == nodes \ {root}
      maxDepth == LET m == getMaxVisibleDepth(s) IN IF m = 0 THEN 1 ELSE m
      avail == s.currentWidth - margin.left - margin.right
      gone == (s.rendered \cup s.exiting) \ nodes
      s1 == [s EXCEPT !.rendered = nodes, !.exiting = gone]
  IN [s1 EXCEPT
        !.y = [d \in nodes |-> <<depth(s, d) * avail, Max(maxDepth, 4)>>],
        !.enterAt = MapTo(nodes \ (s.rendered \cup s.exiting), source),
        !.exitTo = MapTo(gone, source),
        !.linkActive = {d \in links : linkIsActive(s1, d)}
                         \cup (s.linkActive \cap gone),
        !.nodeActive = {d \in nodes : nodeIsActive(s1, d)}
                         \cup (s.nodeActive \cap gone)]

updateActivePath(s) ==
  LET linkEls == (s.rendered \cup s.exiting) \ {root}
  IN IF s.selectedNode = NoNode THEN [s EXCEPT !.linkActive = {}]
     ELSE [s EXCEPT !.linkActive = {d \in linkEls : linkIsActive(s, d)}]

selectNode(s, d) ==
  LET s1 == [s EXCEPT !.selectedNode = d]
      s2 == [s1 EXCEPT !.nodeActive =
                {n \in s1.rendered \cup s1.exiting : nodeIsActive(s1, n)}]
      s3 == updateActivePath(s2)
  IN IF Truthy(Slug(s.data, d))
     THEN [s3 EXCEPT !.calls = Append(s3.calls, <<Slug(s.data, d), Name(s.data, d)>>)]
     ELSE s3

\* Variant: the selection is dropped but the node classes are not redrawn.
clearSelection_keepClasses(s) ==
  [s EXCEPT !.selectedNode = NoNode, !.linkActive = {}]

clearSelection(s) ==
  LET s1 == [s EXCEPT !.selectedNode = NoNode]
  IN [s1 EXCEPT
        !.nodeActive = {n \in s1.rendered \cup s1.exiting : nodeIsActive(s1, n)},
        !.linkActive = {}]

\* Variant: every clicked node is selected, with or without content.
handleNodeClick_selectAny(s, d) ==
  IF isRoot(s, d) /\ isCollapsed(s)
  THEN update(toggle([s EXCEPT !.isTreeExpanded = TRUE], d), d)
  ELSE LET s1 == selectNode(s, d)
       IN IF s1.children[d] # <<>> \/ s1._children[d] # <<>>
          THEN update(toggle(s1, d), d)
          ELSE s1

\* Variant: collapsing an ancestor of the selected node drops the selection.
handleNodeClick_deselecting(s, d) ==
  IF isRoot(s, d) /\ isCollapsed(s)
  THEN update(toggle([s EXCEPT !.isTreeExpanded = TRUE], d), d)
  ELSE LET s1 == IF hasContent(s, d) THEN selectNode(s, d) ELSE s
           s2 == IF /\ s1.selectedNode \notin {NoNode, d}
                    /\ d \in Range(ancestors(s1.data, s1.selectedNode))
                    /\ s1.children[d] # <<>>
                 THEN clearSelection(s1)
                 ELSE s1
       IN IF s2.children[d] # <<>> \/ s2._children[d] # <<>>
          THEN update(toggle(s2, d), d)
          ELSE s2

\* Variant: the toggled node is not re-rendered.
handleNodeClick_noUpdate(s, d) ==
  IF isRoot(s, d) /\ isCollapsed(s)
  THEN update(toggle([s EXCEPT !.isTreeExpanded = TRUE], d), d)
  ELSE LET s1 == IF hasContent(s, d) THEN selectNode(s, d) ELSE s
       IN IF s1.children[d] # <<>> \/ s1._children[d] # <<>>
          THEN toggle(s1, d)
          ELSE s1

\* Variant: selecting and toggling exclude each other (else-if).
handleNodeClick_exclusive(s, d) ==
  IF isRoot(s, d) /\ isCollapsed(s)
  THEN update(toggle([s EXCEPT !.isTreeExpanded = TRUE], d), d)
  ELSE IF hasContent(s, d) THEN selectNode(s, d)
  ELSE IF s.children[d] # <<>> \/ s._children[d] # <<>>
  THEN update(toggle(s, d), d)
  ELSE s

\* Variant: no expansion-only treatment of the collapsed root.
handleNodeClick_noLanding(s, d) ==
  LET s1 == IF hasContent(s, d) THEN selectNode(s, d) ELSE s
  IN IF s1.children[d] # <<>> \/ s1._children[d] # <<>>
     THEN update(toggle(s1, d), d)
     ELSE s1

handleNodeClick(s, d) ==
  IF isRoot(s, d) /\ isCollapsed(s)
  THEN update(toggle([s EXCEPT !.isTreeExpanded = TRUE], d), d)
  ELSE LET s1 == IF hasContent(s, d) THEN selectNode(s, d) ELSE s
       IN IF s1.children[d] # <<>> \/ s1._children[d] # <<>>
          THEN update(toggle(s1, d), d)
          ELSE s1

----------------------------------------------------------------------------
\* Loading

\* Variant: the collapsed landing hides the root's children only.
applyDefaultLandingState_shallow(s) ==
  IF defaultLanding = "collapsed"
  THEN [toggle(s, root) EXCEPT !.isTreeExpanded = FALSE]
  ELSE IF defaultLanding = "expanded"
  THEN [expandAll(s, root) EXCEPT !.isTreeExpanded = TRUE]
  ELSE IF defaultLanding = "path" /\ Len(defaultPath) > 0
  THEN LET s1 == IF s.children[root] # <<>>
                 THEN collapseEach(s, s.children[root])
                 ELSE s
       IN [expandPath(s1, root, defaultPath, 0) EXCEPT !.isTreeExpanded = TRUE]
  ELSE s

applyDefaultLandingState(s) ==
  IF defaultLanding = "collapsed"
  THEN LET s1 == IF s.children[root] # <<>>
                 THEN LET c == collapseEach(s, s.children[root])
                      IN [c EXCEPT !._children[root] = c.children[root],
                                   !.children[root] = <<>>]
                 ELSE s
       IN [s1 EXCEPT !.isTreeExpanded = FALSE]
  ELSE IF defaultLanding = "expanded"
  THEN [expandAll(s, root) EXCEPT !.isTreeExpanded = TRUE]
  ELSE IF defaultLanding = "path" /\ Len(defaultPath) > 0
  THEN LET s1 == IF s.children[root] # <<>>
                 THEN collapseEach(s, s.children[root])
                 ELSE s
       IN [expandPath(s1, root, defaultPath, 0) EXCEPT !.isTreeExpanded = TRUE]
  ELSE s

\* Variant: the expanded landing selects the root without asking hasContent.
applyDefaultSelection_always(s) ==
  IF defaultLanding = "expanded"
  THEN [s EXCEPT !.timer = root]
  ELSE IF defaultLanding = "path" /\ Len(defaultPath) > 0
  THEN LET targetNode == findNodeByPath(s, root, defaultPath, 0)
       IN IF targetNode # NoNode /\ hasContent(s, targetNode)
          THEN [s EXCEPT !.timer = targetNode]
          ELSE s
  ELSE s

applyDefaultSelection(s) ==
  IF defaultLanding = "expanded"
  THEN IF hasContent(s, root) THEN [s EXCEPT !.timer = root] ELSE s
  ELSE IF defaultLanding = "path" /\ Len(defaultPath) > 0
  THEN LET targetNode == findNodeByPath(s, root, defaultPath, 0)
       IN IF targetNode # NoNode /\ hasContent(s, targetNode)
          THEN [s EXCEPT !.timer = targetNode]
          ELSE s
  ELSE s

\* Variant: a payload whose root has no name is refused, nothing is drawn.
loadData_validating(s, t) ==
  IF Name(t, root) = JsUndefined
  THEN [s EXCEPT !.data = t,
                 !.children = [n \in NodesOf(t) |-> DataChildren(t, n)],
                 !._children = [n \in NodesOf(t) |-> <<>>],
                 !.id = [n \in NodesOf(t) |-> n - 1]]
  ELSE LET hier == [n \in NodesOf(t) |-> DataChildren(t, n)]
           order == descendants(hier)
           s1 == [s EXCEPT !.data = t,
                           !.children = hier,
                           !._children = [n \in NodesOf(t) |-> <<>>],
                           !.id = [n \in NodesOf(t) |-> IndexOf(order, n) - 1]]
       IN applyDefaultSelection(update(applyDefaultLandingState(s1), root))

\* Variant: a node's id is its depth instead of a running counter.
loadData_idByDepth(s, t) ==
  LET hier == [n \in NodesOf(t) |-> DataChildren(t, n)]
      s1 == [s EXCEPT !.data = t,
                      !.children = hier,
                      !._children = [n \in NodesOf(t) |-> <<>>],
                      !.id = [n \in NodesOf(t) |-> Len(ancestors(t, n)) - 1]]
  IN applyDefaultSelection(update(applyDefaultLandingState(s1), root))

loadData(s, t) ==
  LET hier == [n \in NodesOf(t) |-> DataChildren(t, n)]
      order == descendants(hier)
      s1 == [s EXCEPT !.data = t,
                      !.children = hier,
                      !._children = [n \in NodesOf(t) |-> <<>>],
                      !.id = [n \in NodesOf(t) |-> IndexOf(order, n) - 1]]
  IN applyDefaultSelection(update(applyDefaultLandingState(s1), root))

----------------------------------------------------------------------------
\* Content Display module: records, rendering, visibility

\* Most loadContent calls that may wait for their fetch at one time.
MaxPending == 2

Para(t) == [tag |-> "p", text |-> t]

Heading(t) == [tag |-> "h2", text |-> t]

\* A content record. Absent string fields are JsUndefined, absent lists
\* are <<>>; content is the rendered HTML as its sequence of block
\* elements; a resource is its text cut into pieces ("http" at the start,
\* "://", "www.", and a path are always pieces of their own).
ContentRecord(ti, da, co, de, im, body, refs, res) ==
  [title |-> ti, date |-> da, collaborators |-> co, description |-> de,
   image |-> im, content |-> body, references |-> refs, resources |-> res]

\* What the content endpoint serves, and what the static build bundles.
ContentCatalog ==
  [ about |->
      ContentRecord("About", "2024-05-01", <<"Ada", "Bo">>, "Who I am", "me.png",
                    <<Para("Hello world."), Para("More.")>>,
                    <<"Ref A">>,
                    << <<"http", "s", "://", "example.com", "/page">>,
                       <<"Just a note">> >>),
    minerals |->
      ContentRecord(JsUndefined, JsUndefined, <<>>, JsUndefined, JsUndefined,
                    <<Para("Hello world."), Heading("Rocks"), Para("Second.")>>,
                    <<>>, <<>>),
    bicycles |->
      ContentRecord("Bicycles", JsUndefined, <<>>, JsUndefined, "",
                    <<Heading("Bikes")>>,
                    <<>>,
                    << <<"http", "://", "www.", "example.com">>,
                       <<"http", "s", "://", "my", "www.", "site.org">> >>),
    kites |->
      ContentRecord("Kites", JsUndefined, <<>>, "On kites", "null",
                    <<Para("Wind.")>>,
                    <<>>,
                    << <<"http", " notes">> >>) ]

RequestSlugs == DOMAIN ContentCatalog \cup {"x"}

FallbackNames == {"Kites", ""}

FetchOutcomes(slug) ==
  {"reject", "notok", "badjson"}
    \cup (IF slug \in DOMAIN ContentCatalog THEN {"ok"} ELSE {})

EmptyDom ==
  [title |-> "", meta |-> <<>>, description |-> "", descDisplay |-> "",
   imageKind |-> "none", imageSrc |-> "", imageAlt |-> "", imageDisplay |-> "",
   body |-> <<>>, references |-> <<>>, resources |-> <<>>]

PanelInit ==
  /\ dom = EmptyDom
  /\ visible = FALSE
  /\ currentSlug = JsNull
  /\ store = ContentCatalog
  /\ pending = {}
  /\ panelOp = [op |-> "init", slug |-> JsNull, name |-> JsNull,
                outcome |-> "", escaped |-> FALSE]

\* The panel's state as one value; escaped tells whether the operation
\* ended by an exception reaching its caller.
PSt ==
  [dom |-> dom, visible |-> visible, currentSlug |-> currentSlug,
   store |-> store, pending |-> pending, escaped |-> FALSE]

PCommit(q) ==
  /\ dom' = q.dom
  /\ visible' = q.visible
  /\ currentSlug' = q.currentSlug
  /\ store' = q.store
  /\ pending' = q.pending

POp(name, slug, nm, outcome, q) ==
  [op |-> name, slug |-> slug, name |-> nm, outcome |-> outcome,
   escaped |-> q.escaped]

\* element.textContent = v
TextContent(v) == IF v \in {JsNull, JsUndefined} THEN "" ELSE v

formatDate(dateStr) == <<"month year of", dateStr>>

\* tempDiv.querySelector('p'): position of the first paragraph, 0 if none.
querySelectorP(blocks) ==
  LET ps == {i \in 1..Len(blocks) : blocks[i].tag = "p"}
  IN IF ps = {} THEN 0 ELSE CHOOSE i \in ps : \A j \in ps : i <= j

RemoveAt(seq, i) == SubSeq(seq, 1, i - 1) \o SubSeq(seq, i + 1, Len(seq))

\* res.startsWith('http')
startsWithHttp(res) == Len(res) > 0 /\ res[1] = "http"

\* Position of "://" in an http(s) URL, 0 if new URL(res) throws.
urlSeparator(res) ==
  IF Len(res) >= 3 /\ res[2] = "://" THEN 2
  ELSE IF Len(res) >= 4 /\ res[2] = "s" /\ res[3] = "://" THEN 3
  ELSE 0

IsPathPiece(piece) == piece \in {"/page"}

\* new URL(res).hostname
hostname(res) ==
  LET from == urlSeparator(res) + 1
      stops == {i \in from..Len(res) : IsPathPiece(res[i])}
      to == IF stops = {} THEN Len(res)
            ELSE (CHOOSE i \in stops : \A j \in stops : i <= j) - 1
  IN SubSeq(res, from, to)

\* host.replace('www.', ''): the first occurrence, wherever it is.
replaceWww(host) ==
  LET hits == {i \in 1..Len(host) : host[i] = "www."}
  IN IF hits = {} THEN host
     ELSE RemoveAt(host, CHOOSE i \in hits : \A j \in hits : i <= j)

resourceItem(res) ==
  IF startsWithHttp(res)
  THEN [kind |-> "link", href |-> res, text |-> replaceWww(hostname(res))]
  ELSE [kind |-> "plain", href |-> <<>>, text |-> res]

resourceThrows(res) == startsWithHttp(res) /\ urlSeparator(res) = 0

\* Variant: the extracted paragraph stays in the body.
renderContent_keepParagraph(d0, rec, fallbackName) ==
  LET firstP == querySelectorP(rec.content)
      throws == \E i \in 1..Len(rec.resources) : resourceThrows(rec.resources[i])
      d5 == [d0 EXCEPT
               !.title = TextContent(IF Truthy(rec.title) THEN rec.title
                                     ELSE fallbackName),
               !.meta = <<>>,
               !.description = IF Truthy(rec.description) THEN rec.description
                               ELSE IF firstP # 0 THEN rec.content[firstP].text
                               ELSE "",
               !.descDisplay = IF Truthy(rec.description) \/ firstP # 0
                               THEN "block" ELSE "none",
               !.imageKind = IF Truthy(rec.image) /\ rec.image # "null"
                             THEN "img" ELSE "none",
               !.imageSrc = IF Truthy(rec.image) /\ rec.image # "null"
                            THEN rec.image ELSE "",
               !.imageAlt = IF Truthy(rec.image) /\ rec.image # "null"
                            THEN rec.title ELSE "",
               !.imageDisplay = IF Truthy(rec.image) /\ rec.image # "null"
                                THEN "flex" ELSE "none",
               !.body = rec.content]
  IN [dom |-> IF throws THEN d5
              ELSE [d5 EXCEPT
                      !.references = rec.references,
                      !.resources = [i \in 1..Len(rec.resources) |->
                                       resourceItem(rec.resources[i])]],
      content |-> rec.content,
      threw |-> throws]

\* Variant: without an image the container is emptied but stays displayed.
renderContent_noHide(d0, rec, fallbackName) ==
  LET r == renderContent_keepParagraph(d0, rec, fallbackName)
      firstP == querySelectorP(rec.content)
      cut == IF ~Truthy(rec.description) /\ firstP # 0
             THEN RemoveAt(rec.content, firstP) ELSE rec.content
  IN [r EXCEPT !.dom.body = cut, !.content = cut,
               !.dom.imageDisplay =
                  IF Truthy(rec.image) /\ rec.image # "null"
                  THEN "flex" ELSE d0.imageDisplay]

\* Variant: a record with neither references nor resources leaves the
\* footer as the render before wrote it.
renderContent_keepFooter(d0, rec, fallbackName) ==
  LET r == renderContent_noHide(d0, rec, fallbackName)
      hasImage == Truthy(rec.image) /\ rec.image # "null"
      bare == rec.references = <<>> /\ rec.resources = <<>>
  IN [r EXCEPT
        !.dom.meta =
           (IF Truthy(rec.date)
            THEN << [kind |-> "date", val |-> formatDate(rec.date)] >>
            ELSE <<>>)
           \o (IF Len(rec.collaborators) > 0
               THEN << [kind |-> "collab", val |-> rec.collaborators] >>
               ELSE <<>>),
        !.dom.imageDisplay = IF hasImage THEN "flex" ELSE "none",
        !.dom.references = IF bare THEN d0.references ELSE @,
        !.dom.resources = IF bare THEN d0.resources ELSE @]

\* renderContent(data, fallbackName): the elements after the call, the
\* value left in data.content, and whether the call threw (after the body
\* was written, before the footer is).
renderContent(d0, rec, fallbackName) ==
  LET d1 == [d0 EXCEPT !.title =
               TextContent(IF Truthy(rec.title) THEN rec.title
                           ELSE fallbackName)]
      metaItems ==
        (IF Truthy(rec.date)
         THEN << [kind |-> "date", val |-> formatDate(rec.date)] >>
         ELSE <<>>)
        \o (IF Len(rec.collaborators) > 0
            THEN << [kind |-> "collab", val |-> rec.collaborators] >>
            ELSE <<>>)
      d2 == [d1 EXCEPT !.meta = metaItems]
      firstP == querySelectorP(rec.content)
      extract == ~Truthy(rec.description) /\ firstP # 0
      content1 == IF extract THEN RemoveAt(rec.content, firstP)
                  ELSE rec.content
      d3 == IF Truthy(rec.description)
            THEN [d2 EXCEPT !.description = rec.description,
                            !.descDisplay = "block"]
            ELSE IF firstP # 0
            THEN [d2 EXCEPT !.description = rec.content[firstP].text,
                            !.descDisplay = "block"]
            ELSE [d2 EXCEPT !.description = "", !.descDisplay = "none"]
      d4 == IF Truthy(rec.image) /\ rec.image # "null"
            THEN [d3 EXCEPT !.imageKind = "img", !.imageSrc = rec.image,
                            !.imageAlt = rec.title, !.imageDisplay = "flex"]
            ELSE [d3 EXCEPT !.imageKind = "none", !.imageSrc = "",
                            !.imageAlt = "", !.imageDisplay = "none"]
      d5 == [d4 EXCEPT !.body = content1]
      throws == \E i \in 1..Len(rec.resources) : resourceThrows(rec.resources[i])
      d6 == [d5 EXCEPT
               !.references = rec.references,
               !.resources = [i \in 1..Len(rec.resources) |->
                                resourceItem(rec.resources[i])]]
  IN [dom |-> IF throws THEN d5 ELSE d6,
      content |-> content1,
      threw |-> throws]

\* Variant: the placeholder leaves the title as it was.
renderError_keepTitle(d0, name) ==
  [d0 EXCEPT !.meta = <<>>,
             !.description = "Content could not be loaded.",
             !.descDisplay = "block",
             !.imageKind = "placeholder", !.imageSrc = "", !.imageAlt = "",
             !.body = <<>>, !.references = <<>>, !.resources = <<>>]

renderError(d0, name) ==
  [d0 EXCEPT !.title = IF Truthy(name) THEN name ELSE "Not Found",
             !.meta = <<>>,
             !.description = "Content could not be loaded.",
             !.descDisplay = "block",
             !.imageKind = "placeholder", !.imageSrc = "", !.imageAlt = "",
             !.body = <<>>, !.references = <<>>, !.resources = <<>>]

show(q) == [q EXCEPT !.visible = TRUE]

hide(q) == [q EXCEPT !.visible = FALSE, !.currentSlug = JsNull]

isVisible(q) == q.visible

Fetch(slug, name) == [slug |-> slug, name |-> name]

\* Variant: starting a load drops the loads still waiting.
loadContent_cancelling(q, slug, name) ==
  [q EXCEPT !.pending = {Fetch(slug, name)}]

\* loadContent up to its first await: the fetch is under way.
loadContent(q, slug, name) ==
  [q EXCEPT !.pending = @ \cup {Fetch(slug, name)}]

\* loadContent from the fetch's settlement to its end.
loadContentSettle(q, f, outcome) ==
  LET q0 == [q EXCEPT !.pending = @ \ {f}]
  IN IF outcome = "ok"
     THEN LET r == renderContent(q0.dom, ContentCatalog[f.slug], f.name)
          IN IF r.threw
             THEN show([q0 EXCEPT !.dom = renderError(r.dom, f.name)])
             ELSE [show([q0 EXCEPT !.dom = r.dom]) EXCEPT !.currentSlug = f.slug]
     ELSE show([q0 EXCEPT !.dom = renderError(q0.dom, f.name)])

loadContentStatic(q, slug, name) ==
  IF slug \in DOMAIN q.store
  THEN LET r == renderContent(q.dom, q.store[slug], name)
           q1 == [q EXCEPT !.dom = r.dom, !.store[slug].content = r.content]
       IN IF r.threw THEN [q1 EXCEPT !.escaped = TRUE]
          ELSE [show(q1) EXCEPT !.currentSlug = slug]
  ELSE show([q EXCEPT !.dom = renderError(q.dom, name)])

----------------------------------------------------------------------------
\* The categorization script (scripts/categorize.js)

\* Most runs of categorizeFile that are followed.
MaxRuns == 2

\* categories/tree-structure.json before the script runs, flattened like
\* the payloads of TreeCatalog.
TreeFile ==
  << TreeNode("Root", "about", 0),
     TreeNode("Interests", JsNull, 1),
     TreeNode("Minerals", "minerals", 2),
     TreeNode("Kites", "kites", 1) >>

\* The model's answer after parseJsonResponse; absent fields are
\* JsUndefined, parentPath is the path string split at ' > '.
Result(rec, newName, parentPath, nodeName, addAs) ==
  [recommendation |-> rec, newName |-> newName, parentPath |-> parentPath,
   nodeName |-> nodeName, addAs |-> addAs]

Results ==
  { Result("new", "Winds", <<"Root", "interests">>, JsUndefined, JsUndefined),
    Result("new", "Winds", <<"Nowhere">>, JsUndefined, JsUndefined),
    Result("existing", JsUndefined, <<>>, "Interests", "child"),
    Result("existing", JsUndefined, <<>>, "Minerals", "sibling"),
    Result("existing", JsUndefined, <<>>, "Root", "sibling"),
    Result("none", JsUndefined, <<>>, JsUndefined, JsUndefined) }

\* The Markdown file: its slug and its title, if any.
Contents ==
  { [slug |-> "winds", title |-> "Winds"],
    [slug |-> "gusts", title |-> JsUndefined] }

\* What the user types at 'Your choice (y/n/c)', trimmed.
Answers == {"y", "YES", "n", "", "c", "Custom", "maybe"}

\* parseInt of text that is no number; every comparison with it fails.
NaN == -999

\* What the user types at 'Select parent location', after parseInt.
ParentChoices == {1, 2, 4, 5, 0, NaN}

CategoryNames == {"", "Gusts", "Interests"}

ToolInit ==
  [pc |-> "start", file |-> TreeFile, tree |-> <<>>,
   result |-> Result("none", JsUndefined, <<>>, JsUndefined, JsUndefined),
   content |-> [slug |-> "", title |-> JsUndefined],
   prompted |-> FALSE, answer |-> "", choice |-> 0, name |-> "",
   writes |-> 0, runs |-> 0]

toLowerCase(str) ==
  CASE str = "YES" -> "yes"
    [] str = "Custom" -> "custom"
    [] str = "Interests" -> "interests"
    [] str = "Root" -> "root"
    [] str = "Minerals" -> "minerals"
    [] str = "Kites" -> "kites"
    [] str = "Nowhere" -> "nowhere"
    [] OTHER -> str

Kids(tree, n) ==
  SelectSeq([i \in 1..Len(tree) |-> i], LAMBDA c : tree[c].parent = n)

RECURSIVE preorder(_, _)
RECURSIVE preorderEach(_, _)
preorder(tree, n) == <<n>> \o preorderEach(tree, Kids(tree, n))

preorderEach(tree, seq) ==
  IF seq = <<>> THEN <<>>
  ELSE preorder(tree, Head(seq)) \o preorderEach(tree, Tail(seq))

\* The first position of seq whose element satisfies Test, 0 if none.
FirstAt(seq, Test(_)) ==
  LET hits == {i \in 1..Len(seq) : Test(seq[i])}
  IN IF hits = {} THEN 0 ELSE CHOOSE i \in hits : \A j \in hits : i <= j

extractAllNodes(tree) ==
  SelectSeq(preorder(tree, 1), LAMBDA n : Truthy(tree[n].name))

findNodeByName(tree, name) ==
  LET order == preorder(tree, 1)
      at == FirstAt(order, LAMBDA n : tree[n].name = name)
  IN IF at = 0 THEN 0 ELSE order[at]

RECURSIVE walkPath(_, _, _)
walkPath(tree, current, pathArray) ==
  IF pathArray = <<>> THEN current
  ELSE LET kids == Kids(tree, current)
           at == FirstAt(kids, LAMBDA c :
                   toLowerCase(tree[c].name) = toLowerCase(Head(pathArray)))
       IN IF kids = <<>> \/ at = 0 THEN 0
          ELSE walkPath(tree, kids[at], Tail(pathArray))

\* findNodeByPath of the script (the engine has its own).
findNodeByPathStr(tree, pathArray) ==
  walkPath(tree, 1, IF pathArray[1] = tree[1].name THEN Tail(pathArray)
                    ELSE pathArray)

addChildNode(tree, parentNode, newNode) ==
  IF \E c \in Range(Kids(tree, parentNode)) : tree[c].name = newNode.name
  THEN [tree |-> tree, ok |-> FALSE]
  ELSE [tree |-> Append(tree, [newNode EXCEPT !.parent = parentNode]),
        ok |-> TRUE]

\* findParent: the parent of the first node named targetName; none when
\* that node is the root.
findParent(tree, targetName) ==
  IF tree[1].name = targetName THEN 0
  ELSE LET found == findNodeByName(tree, targetName)
       IN IF found = 0 THEN 0 ELSE tree[found].parent

addSiblingNode(tree, existingNodeName, newNode) ==
  LET parent == findParent(tree, existingNodeName)
  IN IF parent = 0 THEN [tree |-> tree, ok |-> FALSE]
     ELSE addChildNode(tree, parent, newNode)

saveTree(t) == [t EXCEPT !.file = t.tree, !.writes = @ + 1]

\* The in-memory tree after an addition, written out if it was made.
Added(t, a) == IF a.ok THEN saveTree([t EXCEPT !.tree = a.tree]) ELSE t

applyChanges(t) ==
  LET res == t.result
      slug == t.content.slug
  IN IF res.recommendation = "new" /\ Truthy(res.newName)
     THEN LET parent == findNodeByPathStr(t.tree, res.parentPath)
          IN IF parent # 0
             THEN Added(t, addChildNode(t.tree, parent,
                                        TreeNode(res.newName, slug, 0)))
             ELSE t
     ELSE IF res.recommendation = "existing" /\ Truthy(res.nodeName)
     THEN LET nodeName == IF Truthy(t.content.title) THEN t.content.title
                          ELSE slug
              newNode == TreeNode(nodeName, slug, 0)
          IN IF res.addAs = "child"
             THEN LET parent == findNodeByName(t.tree, res.nodeName)
                  IN IF parent # 0
                     THEN Added(t, addChildNode(t.tree, parent, newNode))
                     ELSE t
             ELSE Added(t, addSiblingNode(t.tree, res.nodeName, newNode))
     ELSE t

\* Variant: any answer that is not 'c' accepts the recommendation.
promptUserAction_acceptByDefault(answer) ==
  IF toLowerCase(answer) \in {"c", "custom"} THEN "custom" ELSE "confirm"

promptUserAction(answer) ==
  IF toLowerCase(answer) \in {"y", "yes"} THEN "confirm"
  ELSE IF toLowerCase(answer) \in {"c", "custom"} THEN "custom"
  ELSE "cancel"

handleCustomCategory(t, parentChoice, categoryName) ==
  LET allNodes == extractAllNodes(t.tree)
      parentIndex == IF parentChoice = NaN THEN NaN ELSE parentChoice - 1
      parentNode ==
        IF parentIndex # NaN /\ parentIndex = Len(allNodes) THEN 1
        ELSE IF parentIndex # NaN /\ parentIndex >= 0
                /\ parentIndex < Len(allNodes)
        THEN findNodeByName(t.tree, t.tree[allNodes[parentIndex + 1]].name)
        ELSE 1
      t1 == [t EXCEPT !.choice = parentChoice, !.name = categoryName]
  IN IF categoryName = "" THEN t1
     ELSE Added(t1, addChildNode(t.tree, parentNode,
                                 TreeNode(categoryName, t.content.slug, 0)))

\* The Markdown files that appear in the content directory while the
\* script watches it, by slug.
Files == {"winds", "gusts"}

\* One run of categorizeFile started by the watcher: where it stands, the
\* tree it loaded, the model's answer, what the user chose, whether it
\* called saveTree.
RunInit ==
  [pc |-> "absent", base |-> <<>>,
   result |-> Result("none", JsUndefined, <<>>, JsUndefined, JsUndefined),
   action |-> "", saved |-> FALSE]

WatchInit == [file |-> TreeFile, runs |-> [f \in Files |-> RunInit]]

\* readMarkdownFile of the file with that slug.
WatchContent(f) == CHOOSE c \in Contents : c.slug = f

\* The arguments (result, content, tree) of run f and the tree file as it
\* is now, in the shape applyChanges and handleCustomCategory take.
RunAsTool(w, f) ==
  [ToolInit EXCEPT !.file = w.file, !.tree = w.runs[f].base,
                   !.result = w.runs[f].result, !.content = WatchContent(f)]

\* Run f ends with the script's state t: the file is what t wrote, if it
\* wrote.
RunEnds(w, f, action, t) ==
  [w EXCEPT !.file = t.file,
            !.runs[f].pc = "done",
            !.runs[f].action = action,
            !.runs[f].saved = (t.writes > 0)]

----------------------------------------------------------------------------
\* Steps of the program

Op(name, n) == [op |-> name, node |-> n]

\* Width of the container when the page opens on a desktop window.
DesktopWidth == 1270

Init ==
  /\ defaultLanding \in Landings
  \* defaultPath is read under the 'path' landing only; elsewhere it keeps
  \* its shipped value [].
  /\ defaultPath \in (IF defaultLanding = "path" THEN Paths ELSE {<<>>})
  /\ data = 0
  /\ id = <<>>
  /\ children = <<>>
  /\ _children = <<>>
  /\ selectedNode = NoNode
  /\ isTreeExpanded = FALSE
  /\ rendered = {}
  /\ exiting = {}
  /\ nodeActive = {}
  /\ linkActive = {}
  /\ timer = NoNode
  /\ currentWidth = DesktopWidth
  /\ breakpoint = "desktop"
  /\ y = <<>>
  /\ enterAt = <<>>
  /\ exitTo = <<>>
  /\ calls = <<>>
  /\ lastOp = Op("init", NoNode)
  /\ PanelInit
  /\ shell = [init |-> "pending", handlers |-> FALSE, treeFetch |-> ""]
  /\ tool = ToolInit
  /\ watch = WatchInit

Fresh == [St EXCEPT !.calls = <<>>]

LoadData ==
  /\ data = 0
  /\ \E t \in TreeIds : Commit(loadData(Fresh, t))
  /\ lastOp' = Op("loadData", root)
  /\ UNCHANGED << defaultLanding, defaultPath, panelVars, outerVars >>

Click ==
  /\ data # 0
  /\ \E d \in rendered \cup exiting :
       /\ Commit(handleNodeClick(Fresh, d))
       /\ lastOp' = Op("click", d)
  /\ UNCHANGED << defaultLanding, defaultPath, panelVars, outerVars >>

SelectNode ==
  /\ data # 0
  /\ \E d \in NodesOf(data) :
       /\ Commit(selectNode(Fresh, d))
       /\ lastOp' = Op("selectNode", d)
  /\ UNCHANGED << defaultLanding, defaultPath, panelVars, outerVars >>

ClearSelection ==
  /\ data # 0
  /\ Commit(clearSelection(Fresh))
  /\ lastOp' = Op("clearSelection", NoNode)
  /\ UNCHANGED << defaultLanding, defaultPath, panelVars, outerVars >>

TimerFire ==
  /\ timer # NoNode
  /\ Commit(selectNode([Fresh EXCEPT !.timer = NoNode], timer))
  /\ lastOp' = Op("timer", timer)
  /\ UNCHANGED << defaultLanding, defaultPath, panelVars, outerVars >>

\* ResizeObserver callback for a change of height: updateDimensions keeps
\* the width and re-runs update(root).
Resize ==
  /\ data # 0
  /\ Commit(update(Fresh, root))
  /\ lastOp' = Op("resize", NoNode)
  /\ UNCHANGED << defaultLanding, defaultPath, panelVars, outerVars >>

TransitionEnd ==
  /\ exiting # {} \/ enterAt # <<>>
  /\ exiting' = {}
  /\ nodeActive' = nodeActive \ exiting
  /\ linkActive' = linkActive \ exiting
  /\ enterAt' = <<>>
  /\ exitTo' = <<>>
  /\ calls' = <<>>
  /\ lastOp' = Op("transitionEnd", NoNode)
  /\ UNCHANGED << defaultLanding, defaultPath, data, id, children, _children,
                  selectedNode, isTreeExpanded, rendered, timer,
                  currentWidth, breakpoint, y, panelVars, outerVars >>

Next ==
  \/ LoadData
  \/ Click
  \/ SelectNode
  \/ ClearSelection
  \/ TimerFire
  \/ Resize
  \/ TransitionEnd

Spec == Init /\ [][Next]_vars

\* The page as shipped: no tree loaded yet, landing 'expanded'.
ShippedInit == Init /\ defaultLanding = "expanded"

----------------------------------------------------------------------------
\* The engine on a deep tree under changing container widths

\* Container width and window class reported by the browser.
Viewport(w, bp) == [width |-> w, breakpoint |-> bp]

Viewports ==
  { Viewport(1270, "desktop"), Viewport(700, "tablet"),
    Viewport(400, "mobile"), Viewport(150, "mobile") }

\* Variant: a resize applies the landing policy again before rendering.
updateDimensions_relanding(s, v) ==
  LET s1 == [s EXCEPT !.currentWidth = v.width, !.breakpoint = v.breakpoint]
  IN IF s1.data # 0 THEN update(applyDefaultLandingState(s1), root) ELSE s1

updateDimensions(s, v) ==
  LET s1 == [s EXCEPT !.currentWidth = v.width, !.breakpoint = v.breakpoint]
  IN IF s1.data # 0 THEN update(s1, root) ELSE s1

ResizeTo ==
  /\ \E v \in Viewports : Commit(updateDimensions(Fresh, v))
  /\ lastOp' = Op("resize", NoNode)
  /\ UNCHANGED << defaultLanding, defaultPath, panelVars, outerVars >>

LoadDeepData ==
  /\ data = 0
  /\ Commit(loadData(Fresh, DeepTree))
  /\ lastOp' = Op("loadData", root)
  /\ UNCHANGED << defaultLanding, defaultPath, panelVars, outerVars >>

LayoutNext ==
  \/ LoadDeepData
  \/ Click
  \/ TimerFire
  \/ ResizeTo
  \/ TransitionEnd

LayoutSpec == ShippedInit /\ [][LayoutNext]_vars

----------------------------------------------------------------------------
\* The Content Display module driven through its public functions

treeVars == << defaultLanding, defaultPath, data, id, children, _children,
               selectedNode, isTreeExpanded, rendered, exiting, nodeActive,
               linkActive, timer, calls, lastOp, layoutVars >>

LoadContent ==
  /\ Cardinality(pending) < MaxPending
  /\ \E slug \in RequestSlugs, name \in FallbackNames :
       /\ Fetch(slug, name) \notin pending
       /\ LET q == loadContent(PSt, slug, name)
          IN /\ PCommit(q)
             /\ panelOp' = POp("loadContent", slug, name, "", q)
  /\ UNCHANGED << treeVars, outerVars >>

FetchSettle ==
  /\ \E f \in pending : \E outcome \in FetchOutcomes(f.slug) :
       LET q == loadContentSettle(PSt, f, outcome)
       IN /\ PCommit(q)
          /\ panelOp' = POp("settle", f.slug, f.name, outcome, q)
  /\ UNCHANGED << treeVars, outerVars >>

LoadContentStatic ==
  /\ \E slug \in RequestSlugs, name \in FallbackNames :
       LET q == loadContentStatic(PSt, slug, name)
       IN /\ PCommit(q)
          /\ panelOp' = POp("loadContentStatic", slug, name, "", q)
  /\ UNCHANGED << treeVars, outerVars >>

Hide ==
  /\ LET q == hide(PSt)
     IN /\ PCommit(q)
        /\ panelOp' = POp("hide", JsNull, JsNull, "", q)
  /\ UNCHANGED << treeVars, outerVars >>

PanelNext ==
  \/ LoadContent
  \/ FetchSettle
  \/ LoadContentStatic
  \/ Hide

PanelSpec == ShippedInit /\ [][PanelNext]_vars

----------------------------------------------------------------------------
\* The dynamic page: app shell wiring the tree to the content panel

RECURSIVE handleNodeSelect(_, _)
\* handleNodeSelect run for each onNodeSelect call of a tree step.
handleNodeSelect(q, cs) ==
  IF cs = <<>> THEN q
  ELSE handleNodeSelect(loadContent(q, cs[1][1], cs[1][2]), Tail(cs))

\* The panel after the callbacks of a tree step that ends in state s.
Notified(s) ==
  LET q == handleNodeSelect(PSt, s.calls)
  IN /\ Cardinality(q.pending) <= MaxPending
     /\ PCommit(q)
     /\ panelOp' = IF s.calls = <<>> THEN panelOp
                   ELSE POp("loadContent", s.calls[1][1], s.calls[1][2], "", q)

\* Variant: Escape hides the panel and leaves the selection.
closeOnEscape_keepSelection(s, q) ==
  IF isVisible(q) THEN [tree |-> s, panel |-> hide(q)]
  ELSE [tree |-> s, panel |-> q]

\* keydown listener: Escape while the panel is visible.
closeOnEscape(s, q) ==
  IF isVisible(q) THEN [tree |-> clearSelection(s), panel |-> hide(q)]
  ELSE [tree |-> s, panel |-> q]

\* click listener, for a target outside both sections.
closeOnClickOutside(s, q) ==
  IF isVisible(q) THEN [tree |-> clearSelection(s), panel |-> hide(q)]
  ELSE [tree |-> s, panel |-> q]

AppClick ==
  /\ data # 0
  /\ \E d \in rendered \cup exiting :
       LET s == handleNodeClick(Fresh, d)
       IN /\ Commit(s)
          /\ Notified(s)
          /\ lastOp' = Op("click", d)
  /\ UNCHANGED << defaultLanding, defaultPath, outerVars >>

AppTimerFire ==
  /\ timer # NoNode
  /\ LET s == selectNode([Fresh EXCEPT !.timer = NoNode], timer)
     IN /\ Commit(s)
        /\ Notified(s)
  /\ lastOp' = Op("timer", timer)
  /\ UNCHANGED << defaultLanding, defaultPath, outerVars >>

Closed(r, name) ==
  /\ shell.handlers
  /\ Commit(r.tree)
  /\ PCommit(r.panel)
  /\ panelOp' = IF visible THEN POp("hide", JsNull, JsNull, "", r.panel)
                ELSE panelOp
  /\ lastOp' = Op(name, selectedNode)
  /\ UNCHANGED << defaultLanding, defaultPath, outerVars >>

Escape == Closed(closeOnEscape(Fresh, PSt), "escape")

ClickOutside == Closed(closeOnClickOutside(Fresh, PSt), "clickOutside")

\* The tree payloads served to the page.
AppTreeIds == {1, 3}

\* How obtaining and loading the tree can end: loaded, fetch rejected,
\* body not JSON, or loadData throwing (payload null: d3.hierarchy throws
\* before root is assigned).
TreeFetchOutcomes == {"ok", "reject", "badjson", "loadThrows"}

\* Variant: init without the try / catch around the tree load.
init_noCatch(s, outcome, t) ==
  IF outcome = "ok"
  THEN [tree |-> loadData(s, t),
        shell |-> [init |-> "returned", handlers |-> TRUE, treeFetch |-> outcome]]
  ELSE [tree |-> s,
        shell |-> [init |-> "threw", handlers |-> FALSE, treeFetch |-> outcome]]

\* App.init from the settlement of the tree fetch to its end.
init(s, outcome, t) ==
  [tree |-> IF outcome = "ok" THEN loadData(s, t) ELSE s,
   shell |-> [init |-> "returned", handlers |-> TRUE, treeFetch |-> outcome]]

AppInit ==
  /\ shell.init = "pending"
  /\ \E outcome \in TreeFetchOutcomes : \E t \in AppTreeIds :
       LET r == init(Fresh, outcome, t)
       IN /\ Commit(r.tree)
          /\ shell' = r.shell
          /\ lastOp' = Op(IF outcome = "ok" THEN "loadData" ELSE "loadFailed",
                          root)
  /\ UNCHANGED << defaultLanding, defaultPath, panelVars, tool, watch >>

AppFetchSettle ==
  /\ \E f \in pending : \E outcome \in FetchOutcomes(f.slug) :
       LET q == loadContentSettle(PSt, f, outcome)
       IN /\ PCommit(q)
          /\ panelOp' = POp("settle", f.slug, f.name, outcome, q)
  /\ calls' = <<>>
  /\ lastOp' = Op("settle", NoNode)
  /\ UNCHANGED << defaultLanding, defaultPath, data, id, children, _children,
                  selectedNode, isTreeExpanded, rendered, exiting, nodeActive,
                  linkActive, timer, layoutVars, outerVars >>

AppNext ==
  \/ AppInit
  \/ AppClick
  \/ AppTimerFire
  \/ Resize
  \/ TransitionEnd
  \/ AppFetchSettle
  \/ Escape
  \/ ClickOutside

AppSpec == ShippedInit /\ [][AppNext]_vars

----------------------------------------------------------------------------
\* The categorization script run from the command line

\* categorizeFile up to the prompt: the tree is read, the model answers.
Analyze ==
  /\ tool.pc = "start"
  /\ \E outcome \in {"ok", "noTree", "noResponse", "noParse"} :
     \E res \in Results : \E c \in Contents :
       tool' = IF outcome = "ok"
               THEN [tool EXCEPT !.pc = "prompt", !.tree = tool.file,
                                 !.result = res, !.content = c]
               ELSE [tool EXCEPT !.pc = "done"]
  /\ UNCHANGED << treeVars, panelVars, shell, watch >>

\* The answer to 'Your choice (y/n/c)' and what categorizeFile does with it.
Answer ==
  /\ tool.pc = "prompt"
  /\ \E a \in Answers :
       LET t == [tool EXCEPT !.prompted = TRUE, !.answer = a]
           action == promptUserAction(a)
       IN tool' = IF action = "confirm"
                  THEN [applyChanges(t) EXCEPT !.pc = "done"]
                  ELSE IF action = "custom" THEN [t EXCEPT !.pc = "custom"]
                  ELSE [t EXCEPT !.pc = "done"]
  /\ UNCHANGED << treeVars, panelVars, shell, watch >>

CustomCategory ==
  /\ tool.pc = "custom"
  /\ \E choice \in ParentChoices : \E nm \in CategoryNames :
       tool' = [handleCustomCategory(tool, choice, nm) EXCEPT !.pc = "done"]
  /\ UNCHANGED << treeVars, panelVars, shell, watch >>

\* The script is run on the next file.
RunAgain ==
  /\ tool.pc = "done"
  /\ tool.runs + 1 < MaxRuns
  /\ tool' = [ToolInit EXCEPT !.file = tool.file, !.writes = tool.writes,
                              !.runs = tool.runs + 1]
  /\ UNCHANGED << treeVars, panelVars, shell, watch >>

ToolNext ==
  \/ Analyze
  \/ Answer
  \/ CustomCategory
  \/ RunAgain

ToolSpec == ShippedInit /\ [][ToolNext]_vars

----------------------------------------------------------------------------
\* The categorization script in watch mode

\* fs.watch reports a new .md file and the callback starts categorizeFile.
FileAppears ==
  /\ \E f \in Files :
       /\ watch.runs[f].pc = "absent"
       /\ watch' = [watch EXCEPT !.runs[f].pc = "started"]
  /\ UNCHANGED << treeVars, panelVars, shell, tool >>

\* loadTree of a run resolves: the run holds its own parse of the file.
WatchLoadTree ==
  /\ \E f \in Files : \E outcome \in {"ok", "noTree"} :
       /\ watch.runs[f].pc = "started"
       /\ watch' = IF outcome = "ok"
                   THEN [watch EXCEPT !.runs[f].pc = "analyzing",
                                      !.runs[f].base = watch.file]
                   ELSE [watch EXCEPT !.runs[f].pc = "done"]
  /\ UNCHANGED << treeVars, panelVars, shell, tool >>

\* The model answers a run, which then asks the user. readline serves one
\* question at a time: the runs followed are those whose questions do not
\* overlap.
WatchAnalyzed ==
  /\ \E f \in Files : \E outcome \in {"ok", "noResponse", "noParse"} :
     \E res \in Results :
       /\ watch.runs[f].pc = "analyzing"
       /\ \A g \in Files : watch.runs[g].pc \notin {"prompt", "custom"}
       /\ watch' = IF outcome = "ok"
                   THEN [watch EXCEPT !.runs[f].pc = "prompt",
                                      !.runs[f].result = res]
                   ELSE [watch EXCEPT !.runs[f].pc = "done"]
  /\ UNCHANGED << treeVars, panelVars, shell, tool >>

\* The user answers the question of a run.
WatchAnswer ==
  /\ \E f \in Files : \E a \in Answers :
       /\ watch.runs[f].pc = "prompt"
       /\ LET action == promptUserAction(a)
          IN watch' =
               IF action = "confirm"
               THEN RunEnds(watch, f, action, applyChanges(RunAsTool(watch, f)))
               ELSE IF action = "custom"
               THEN [watch EXCEPT !.runs[f].pc = "custom",
                                  !.runs[f].action = action]
               ELSE [watch EXCEPT !.runs[f].pc = "done",
                                  !.runs[f].action = action]
  /\ UNCHANGED << treeVars, panelVars, shell, tool >>

WatchCustom ==
  /\ \E f \in Files : \E choice \in ParentChoices : \E nm \in CategoryNames :
       /\ watch.runs[f].pc = "custom"
       /\ watch' = RunEnds(watch, f, "custom",
                           handleCustomCategory(RunAsTool(watch, f), choice, nm))
  /\ UNCHANGED << treeVars, panelVars, shell, tool >>

WatchNext ==
  \/ FileAppears
  \/ WatchLoadTree
  \/ WatchAnalyzed
  \/ WatchAnswer
  \/ WatchCustom

WatchSpec == ShippedInit /\ [][WatchNext]_vars

TypeOK ==
  /\ defaultLanding \in Landings
  /\ defaultPath \in Paths
  /\ data \in {0} \cup TreeIds
  /\ data # 0 =>
       /\ selectedNode \in {NoNode} \cup NodesOf(data)
       /\ rendered \subseteq NodesOf(data)
       /\ exiting \subseteq NodesOf(data)
       /\ timer \in {NoNode} \cup NodesOf(data)

----------------------------------------------------------------------------
\* Vocabulary of the properties, read off the loaded payload

HasKids(n) == \E c \in NodesOf(data) : Parent(data, c) = n

CarriesContent(n) == Slug(data, n) \notin {JsNull, JsUndefined}

RECURSIVE IsAncOrSelf(_, _)
IsAncOrSelf(a, n) ==
  \/ a = n
  \/ Parent(data, n) # NoNode /\ IsAncOrSelf(a, Parent(data, n))

ProperAncestors(n) == {a \in NodesOf(data) \ {n} : IsAncOrSelf(a, n)}

ProperDescendants(n) == {m \in NodesOf(data) \ {n} : IsAncOrSelf(n, m)}

Depth(n) == Cardinality(ProperAncestors(n))

Expanded(n) == children[n] # <<>>

ActivePath == {n \in NodesOf(data) : isOnActivePath(St, n)}

\* Greedy resolution of a name sequence: the nodes matched one after
\* another, the root first, each name against the children of the node
\* matched before it.
RECURSIVE MatchChain(_, _, _)
MatchChain(n, names, i) ==
  IF i > Len(names) THEN <<n>>
  ELSE LET kids == DataChildren(data, n)
           hits == {k \in 1..Len(kids) : Name(data, kids[k]) = names[i]}
       IN IF hits = {} THEN <<n>>
          ELSE <<n>> \o MatchChain(kids[CHOOSE k \in hits : \A j \in hits : k <= j],
                                   names, i + 1)

----------------------------------------------------------------------------
\* C1: at most one node is selected, and right after selectNode(d) the
\* active path is exactly d and its ancestors, a contiguous parent chain
\* from the root to d.
C1_SelectionActivePath ==
  data # 0 =>
    /\ selectedNode \in {NoNode} \cup NodesOf(data)
    /\ lastOp.op \in {"selectNode", "timer"} =>
         LET d == lastOp.node
         IN /\ selectedNode = d
            /\ ActivePath = {a \in NodesOf(data) : IsAncOrSelf(a, d)}
            /\ root \in ActivePath
            /\ \A n \in ActivePath \ {root} : Parent(data, n) \in ActivePath
            /\ Cardinality(ActivePath) = Depth(d) + 1

C1_Witness ==
  /\ data # 0
  /\ lastOp.op = "selectNode"
  /\ Depth(lastOp.node) >= 2
  /\ selectedNode = lastOp.node

\* C2: a node is rendered if and only if every proper ancestor of it is
\* expanded; nothing below a collapsed node is rendered.
C2_VisibleIffAncestorsExpanded ==
  data # 0 =>
    /\ rendered = {n \in NodesOf(data) : \A a \in ProperAncestors(n) : Expanded(a)}
    /\ \A a \in NodesOf(data) :
         ~Expanded(a) => rendered \cap ProperDescendants(a) = {}

C2_Witness ==
  /\ data # 0
  /\ lastOp.op = "click"
  /\ HasKids(lastOp.node)
  /\ ~Expanded(lastOp.node)
  /\ lastOp.node \in rendered
  /\ \E m \in ProperDescendants(lastOp.node) : Expanded(m)

\* C3: a click that toggles d, followed at once by a second click on d,
\* brings back the rendered set of before the first click and leaves the
\* expand state of every descendant of d as it was.
C3_ToggleTwiceRestores ==
  [][ (lastOp'.op = "click" /\ HasKids(lastOp'.node)) =>
        LET d == lastOp'.node
            again == handleNodeClick([St' EXCEPT !.calls = <<>>], d)
        IN /\ again.rendered = rendered
           /\ \A n \in ProperDescendants(d) :
                /\ again.children[n] = children[n]
                /\ again._children[n] = _children[n] ]_vars

C3_Witness ==
  /\ data # 0
  /\ lastOp.op = "click"
  /\ HasKids(lastOp.node)
  /\ ~Expanded(lastOp.node)
  /\ \E m \in ProperDescendants(lastOp.node) : Expanded(m)
  /\ exiting # {}

\* C4: a click on d, other than a click on the root while only the root is
\* rendered, flips d's expand state iff d has children, selects d iff d
\* carries content and otherwise leaves the selection as it was.
C4_ClickTogglesAndSelects ==
  [][ (lastOp'.op = "click"
        /\ ~(lastOp'.node = root /\ rendered = {root})) =>
        LET d == lastOp'.node
        IN /\ ((children'[d] # <<>>) # (children[d] # <<>>)) <=> HasKids(d)
           /\ CarriesContent(d) => selectedNode' = d
           /\ ~CarriesContent(d) => selectedNode' = selectedNode ]_vars

C4_Witness ==
  /\ data # 0
  /\ lastOp.op = "click"
  /\ lastOp.node # root
  /\ HasKids(lastOp.node)
  /\ CarriesContent(lastOp.node)
  /\ selectedNode = lastOp.node
  /\ calls # <<>>
  /\ Expanded(lastOp.node)

\* C5: a click on the root while only the root is rendered expands the
\* root and nothing else: the selection is unchanged (none right after a
\* collapsed landing) and the selection callback is not invoked.
C5_CollapsedRootClickOnlyExpands ==
  [][ (lastOp'.op = "click" /\ lastOp'.node = root /\ rendered = {root}) =>
        /\ selectedNode' = selectedNode
        /\ calls' = <<>>
        /\ children'[root] = DataChildren(data, root)
        /\ \A n \in NodesOf(data) \ {root} :
             children'[n] = children[n] /\ _children'[n] = _children[n]
        /\ (defaultLanding = "collapsed" /\ lastOp.op = "loadData")
             => selectedNode' = NoNode ]_vars

C5_Witness ==
  /\ data # 0
  /\ defaultLanding = "collapsed"
  /\ lastOp.op = "click"
  /\ lastOp.node = root
  /\ Expanded(root)
  /\ Truthy(Slug(data, root))
  /\ selectedNode = NoNode
  /\ calls = <<>>

\* C6: selectNode(d) invokes the selection callback exactly once, with
\* (slug of d, name of d), when d carries content (slug neither null nor
\* absent), and does not invoke it otherwise.
C6_SelectNodeCallback ==
  (data # 0 /\ lastOp.op \in {"selectNode", "timer"}) =>
    LET d == lastOp.node
    IN IF CarriesContent(d)
       THEN calls = << <<Slug(data, d), Name(data, d)>> >>
       ELSE calls = <<>>

\* C7: clearSelection leaves no selected node, an empty active path, no
\* node and no link marked active, and changes neither an expand state nor
\* the rendered set.
C7_ClearSelection ==
  [][ lastOp'.op = "clearSelection" =>
        /\ selectedNode' = NoNode
        /\ \A n \in NodesOf(data) : ~isOnActivePath(St', n)
        /\ nodeActive' = {}
        /\ linkActive' = {}
        /\ children' = children
        /\ _children' = _children
        /\ rendered' = rendered ]_vars

C7_Witness ==
  /\ data # 0
  /\ lastOp.op = "clearSelection"
  /\ selectedNode = NoNode
  /\ Cardinality(rendered) > 1
  /\ exiting # {}
  /\ \E n \in NodesOf(data) : _children[n] # <<>>

\* C8: with the collapsed landing, right after loadData only the root is
\* rendered, every node with children is collapsed and nothing is
\* selected; no deferred selection is ever scheduled.
C8_CollapsedLanding ==
  (data # 0 /\ defaultLanding = "collapsed") =>
    /\ timer = NoNode
    /\ lastOp.op # "timer"
    /\ lastOp.op = "loadData" =>
         /\ rendered = {root}
         /\ selectedNode = NoNode
         /\ \A n \in NodesOf(data) :
              /\ ~Expanded(n)
              /\ _children[n] = DataChildren(data, n)

C8_Witness ==
  /\ data # 0
  /\ defaultLanding = "collapsed"
  /\ lastOp.op = "loadData"
  /\ \E n \in NodesOf(data) \ {root} : HasKids(n)
  /\ rendered = {root}

\* C9: with the expanded landing, right after loadData every node with
\* children is expanded and all nodes are rendered; a deferred selection of
\* the root is pending iff the root carries an identifier, when it fires
\* the root is the one selected node, and without an identifier on the
\* root nothing is ever auto-selected.
C9_ExpandedLanding ==
  (data # 0 /\ defaultLanding = "expanded") =>
    /\ lastOp.op = "loadData" =>
         /\ \A n \in NodesOf(data) :
              children[n] = DataChildren(data, n) /\ _children[n] = <<>>
         /\ rendered = NodesOf(data)
         /\ selectedNode = NoNode
         /\ (timer = root) <=> CarriesContent(root)
    /\ lastOp.op = "timer" =>
         /\ lastOp.node = root
         /\ CarriesContent(root)
         /\ selectedNode = root
         /\ ActivePath = {root}
    /\ ~CarriesContent(root) => timer = NoNode /\ lastOp.op # "timer"

C9_Witness ==
  /\ data # 0
  /\ defaultLanding = "expanded"
  /\ lastOp.op = "timer"
  /\ lastOp.node = root
  /\ selectedNode = root
  /\ rendered = NodesOf(data)
  /\ Cardinality(rendered) > 1

\* C10: with the path landing and a non-empty name sequence, the names are
\* matched greedily from the root: when all match, the final node is
\* auto-selected iff it carries content; when a name has no matching child,
\* the last matched node is left expanded and nothing is auto-selected.
C10_PathLanding ==
  (data # 0 /\ defaultLanding = "path" /\ Len(defaultPath) > 0) =>
    LET chain == MatchChain(root, defaultPath, 1)
        last == chain[Len(chain)]
        resolved == Len(chain) = Len(defaultPath) + 1
        selects == resolved /\ CarriesContent(last)
    IN /\ lastOp.op = "loadData" =>
            /\ selectedNode = NoNode
            /\ timer = IF selects THEN last ELSE NoNode
            /\ (~resolved /\ HasKids(last)) =>
                 children[last] = DataChildren(data, last)
       /\ lastOp.op = "timer" =>
            selects /\ lastOp.node = last /\ selectedNode = last
       /\ ~selects => timer = NoNode

C10_Witness ==
  /\ data = 1
  /\ defaultLanding = "path"
  /\ defaultPath = <<"Interests", "Kites">>
  /\ lastOp.op = "loadData"
  /\ Expanded(2)
  /\ rendered = {1, 2, 3, 4}
  /\ selectedNode = NoNode
  /\ timer = NoNode

\* C11: loadData gives every node an id distinct from the id of every
\* other node of the tree, and no later step changes an id.
C11_StableIds ==
  [][ /\ data' # 0 =>
           \A a, b \in NodesOf(data') : a # b => id'[a] # id'[b]
      /\ data # 0 => id' = id ]_vars

C11_Witness ==
  /\ data # 0
  /\ lastOp.op = "resize"
  /\ Cardinality(NodesOf(data)) >= 5
  /\ Cardinality({id[n] : n \in NodesOf(data)}) = Cardinality(NodesOf(data))
  /\ selectedNode # NoNode
  /\ \E n \in NodesOf(data) : _children[n] # <<>>

\* C12: no step adds, removes or reorders nodes: the child sequence of
\* every node (d.children when expanded, d._children when collapsed) is
\* the child sequence of the payload given to loadData.
C12_NoStructuralEdit ==
  data # 0 =>
    \A n \in NodesOf(data) :
      (IF children[n] # <<>> THEN children[n] ELSE _children[n])
        = DataChildren(data, n)

C12_Witness ==
  /\ data # 0
  /\ lastOp.op = "click"
  /\ \E n \in NodesOf(data) : _children[n] # <<>> /\ Len(_children[n]) >= 2
  /\ \E n \in NodesOf(data) : children[n] # <<>>
  /\ exiting # {}

----------------------------------------------------------------------------
\* Vocabulary of the content panel's contract

\* Rendering the record throws.
RenderThrows(rec) ==
  \E i \in 1..Len(rec.resources) :
     /\ Len(rec.resources[i]) > 0
     /\ rec.resources[i][1] = "http"
     /\ ~(\E k \in {2, 3} : /\ Len(rec.resources[i]) >= k
                            /\ rec.resources[i][k] = "://")

\* The last operation was a loadContent that failed.
LoadFailed ==
  /\ panelOp.op = "settle"
  /\ \/ panelOp.outcome # "ok"
     \/ RenderThrows(ContentCatalog[panelOp.slug])

\* The last operation was a loadContent whose record was rendered.
LoadRendered ==
  /\ panelOp.op = "settle"
  /\ panelOp.outcome = "ok"
  /\ ~RenderThrows(ContentCatalog[panelOp.slug])

\* The last operation rendered a bundled record.
StaticRendered ==
  /\ panelOp.op = "loadContentStatic"
  /\ panelOp.slug \in DOMAIN ContentCatalog

HasDescription(rec) == rec.description \notin {JsUndefined, JsNull, ""}

Paragraphs(blocks) == {i \in 1..Len(blocks) : blocks[i].tag = "p"}

FirstParagraph(blocks) ==
  CHOOSE i \in Paragraphs(blocks) : \A j \in Paragraphs(blocks) : i <= j

Without(blocks, i) ==
  [k \in 1..(Len(blocks) - 1) |-> IF k < i THEN blocks[k] ELSE blocks[k + 1]]

\* C13 (as stated): whenever loadContent fails (fetch rejects, response not
\* OK, body not parseable, or rendering throws) it completes without
\* throwing, the panel is visible and the displayed title equals the
\* fallback name.
C13_FailureShowsFallbackName ==
  LoadFailed => /\ ~panelOp.escaped
                /\ visible
                /\ dom.title = panelOp.name

\* C13 (amended): whenever loadContent fails it completes without throwing,
\* the panel is visible, and the displayed title is the fallback name when
\* that is non-empty and 'Not Found' when it is empty.
C13_FailureShowsNameOrNotFound ==
  LoadFailed => /\ ~panelOp.escaped
                /\ visible
                /\ dom.title = (IF panelOp.name = "" THEN "Not Found"
                                ELSE panelOp.name)

C13_Witness ==
  /\ panelOp.op = "settle"
  /\ panelOp.outcome = "ok"
  /\ RenderThrows(ContentCatalog[panelOp.slug])
  /\ panelOp.name = ""
  /\ visible
  /\ dom.title = "Not Found"
  /\ dom.description = "Content could not be loaded."

\* C15: rendering a record with no description whose body has a paragraph
\* shows the first paragraph's text as the description and the body without
\* that paragraph, so the text is not repeated; with an explicit description
\* the body is shown unmodified.
C15_Rule(rec) ==
  /\ (~HasDescription(rec) /\ Paragraphs(rec.content) # {}) =>
        /\ dom'.description = rec.content[FirstParagraph(rec.content)].text
        /\ dom'.body = Without(rec.content, FirstParagraph(rec.content))
        /\ \A i \in 1..Len(dom'.body) : dom'.body[i].text # dom'.description
  /\ HasDescription(rec) =>
        /\ dom'.description = rec.description
        /\ dom'.body = rec.content

C15_DescriptionFromFirstParagraph ==
  [][ /\ LoadRendered' => C15_Rule(ContentCatalog[panelOp'.slug])
      /\ (panelOp'.op = "loadContentStatic" /\ panelOp'.slug \in DOMAIN store)
            => C15_Rule(store[panelOp'.slug]) ]_vars

C15_Witness ==
  /\ LoadRendered
  /\ ~HasDescription(ContentCatalog[panelOp.slug])
  /\ Len(ContentCatalog[panelOp.slug].content) = 3
  /\ dom.description = "Hello world."
  /\ dom.body = <<Heading("Rocks"), Para("Second.")>>
  /\ visible

\* C16 (as stated): render leaves the record it was given unchanged, and
\* rendering the same bundled record again displays the same description
\* and the same body as the time before.
C16_RenderIsPure ==
  [][ panelOp'.op = "loadContentStatic" =>
        /\ store' = store
        /\ ( /\ panelOp.op = "loadContentStatic"
             /\ panelOp'.slug = panelOp.slug
             /\ panelOp.slug \in DOMAIN store )
           => /\ dom'.description = dom.description
              /\ dom'.body = dom.body ]_vars

\* The item begins with a URL scheme.
BeginsWithScheme(res) ==
  /\ Len(res) >= 3
  /\ res[1] = "http"
  /\ res[2] = "://" \/ (res[2] = "s" /\ res[3] = "://")

\* The host of a URL with a leading "www." taken off.
BareDomain(res) ==
  LET sep == IF res[2] = "://" THEN 2 ELSE 3
      host == [k \in 1..(Cardinality({i \in (sep + 1)..Len(res) :
                                        res[i] # "/page"})) |-> res[sep + k]]
  IN IF host[1] = "www." THEN Tail(host) ELSE host

ExpectedItem(res) ==
  IF BeginsWithScheme(res)
  THEN [kind |-> "link", href |-> res, text |-> BareDomain(res)]
  ELSE [kind |-> "plain", href |-> <<>>, text |-> res]

\* C17 (as stated): for every record, each resources item that begins with
\* a URL scheme is rendered as a link whose text is the bare domain, and
\* every other item as a plain-text list item.
C17_ResourcesRendered ==
  StaticRendered =>
    /\ ~panelOp.escaped
    /\ dom.resources =
         [i \in 1..Len(ContentCatalog[panelOp.slug].resources) |->
            ExpectedItem(ContentCatalog[panelOp.slug].resources[i])]

\* C18 (as stated): after rendering a record with no image field the image
\* block is hidden and empty; after rendering a record with an image field
\* it is displayed.
C18_ImageBlockByField ==
  (LoadRendered \/ StaticRendered) =>
    IF ContentCatalog[panelOp.slug].image = JsUndefined
    THEN dom.imageDisplay = "none" /\ dom.imageKind = "none"
    ELSE dom.imageDisplay = "flex" /\ dom.imageKind = "img"

\* C18 (amended): after rendering a record whose image is a non-empty
\* string other than 'null' the image block is displayed with that image;
\* after rendering any other record (no image field, empty, or 'null') the
\* block is hidden and empty, whatever was rendered before.
C18_ImageBlockByValue ==
  (LoadRendered \/ StaticRendered) =>
    IF ContentCatalog[panelOp.slug].image \in {JsUndefined, JsNull, "", "null"}
    THEN dom.imageDisplay = "none" /\ dom.imageKind = "none"
    ELSE /\ dom.imageDisplay = "flex"
         /\ dom.imageKind = "img"
         /\ dom.imageSrc = ContentCatalog[panelOp.slug].image

\* A record with image 'null' rendered while the footer still shows the
\* references of a record rendered with its image.
C18_Witness ==
  /\ StaticRendered
  /\ ContentCatalog[panelOp.slug].image = "null"
  /\ dom.references = ContentCatalog["about"].references
  /\ dom.imageDisplay = "none"
  /\ dom.imageKind = "none"

\* C14: a selection made while an earlier fetch is pending cancels nothing,
\* and each fetch that resolves with a record overwrites the panel with it,
\* whichever node is selected then.
C14_LaterResolutionOverwrites ==
  [][ /\ lastOp'.op = "settle" =>
           /\ Fetch(panelOp'.slug, panelOp'.name) \in pending
           /\ pending' = pending \ {Fetch(panelOp'.slug, panelOp'.name)}
      /\ lastOp'.op # "settle" => pending \subseteq pending'
      /\ (lastOp'.op = "settle" /\ LoadRendered') =>
           /\ currentSlug' = panelOp'.slug
           /\ dom'.title =
                (IF ContentCatalog[panelOp'.slug].title = JsUndefined
                 THEN panelOp'.name
                 ELSE ContentCatalog[panelOp'.slug].title)
           /\ dom'.references = ContentCatalog[panelOp'.slug].references ]_vars

\* The panel shows one node's record while another content node is selected
\* and no fetch is pending.
C14_Witness ==
  /\ lastOp.op = "settle"
  /\ LoadRendered
  /\ pending = {}
  /\ visible
  /\ selectedNode # NoNode
  /\ Slug(data, selectedNode) \in DOMAIN ContentCatalog
  /\ Slug(data, selectedNode) # panelOp.slug
  /\ currentSlug = panelOp.slug
  /\ dom.title = panelOp.name

\* C19: while the panel is visible, Escape or a click outside both sections
\* hides it and clears the tree selection; while it is not visible they
\* change neither the panel nor the selection; after show() the panel is
\* visible.
C19_CloseOnEscapeOrClickOutside ==
  [][ /\ lastOp'.op \in {"escape", "clickOutside"} =>
           IF visible
           THEN /\ ~visible'
                /\ selectedNode' = NoNode
                /\ \A n \in NodesOf(data) : ~isOnActivePath(St', n)
           ELSE UNCHANGED << dom, visible, currentSlug, pending, selectedNode,
                             children, _children, rendered, nodeActive,
                             linkActive >>
      /\ lastOp'.op = "settle" => visible' ]_vars

C19_Witness ==
  /\ lastOp.op = "escape"
  /\ lastOp.node # NoNode
  /\ panelOp.op = "hide"
  /\ ~visible
  /\ selectedNode = NoNode
  /\ nodeActive = {}

----------------------------------------------------------------------------
\* The selected node and its ancestors.
Chain == IF selectedNode = NoNode THEN {}
         ELSE {a \in NodesOf(data) : IsAncOrSelf(a, selectedNode)}

\* C22: in every state, after every render and every selection change, the
\* rendered nodes marked active are exactly the rendered nodes on the chain
\* of the selected node and its ancestors, a rendered link into n is active
\* exactly when n and its parent are on the chain, and with nothing selected
\* no node or link is active.
C22_ActiveMarksFollowChain ==
  data # 0 =>
    /\ nodeActive \cap rendered = Chain \cap rendered
    /\ linkActive \cap rendered =
         {n \in rendered : n \in Chain /\ Parent(data, n) \in Chain}
    /\ selectedNode = NoNode => nodeActive = {} /\ linkActive = {}

\* A render that brought back part of the chain of a selected deep node.
C22_Witness ==
  /\ data # 0
  /\ lastOp.op = "click"
  /\ HasKids(lastOp.node)
  /\ Expanded(lastOp.node)
  /\ selectedNode \notin {NoNode, lastOp.node}
  /\ Depth(selectedNode) >= 2
  /\ lastOp.node \in Chain
  /\ selectedNode \in rendered
  /\ selectedNode \in linkActive

\* C26 (as stated): once the root has been expanded, every later click on a
\* root that carries content selects the root and invokes the selection
\* callback, also after the root was collapsed again.
C26_LaterRootClickSelects ==
  [][ ( /\ lastOp'.op = "click"
        /\ lastOp'.node = root
        /\ isTreeExpanded
        /\ Slug(data, root) \notin {JsNull, JsUndefined, ""} )
      => /\ selectedNode' = root
         /\ calls' = << <<Slug(data, root), Name(data, root)>> >> ]_vars

\* The nodes the 'path' policy is said to leave expanded: the root, and the
\* matched nodes other than the final node of a fully resolved sequence.
PathSearched ==
  LET chain == MatchChain(root, defaultPath, 1)
      resolved == Len(chain) = Len(defaultPath) + 1
  IN {root} \cup {chain[i] : i \in 1..(Len(chain) - (IF resolved THEN 1 ELSE 0))}

\* C27 (as stated): under the 'path' policy, for every name sequence, the
\* empty one included, after loadTree exactly the root and the searched
\* matched nodes are expanded, so the visible set is the root, the root's
\* children and the children of the matched nodes but the last of a fully
\* resolved sequence.
C27_PathLandingVisibleSet ==
  (data # 0 /\ lastOp.op = "loadData" /\ defaultLanding = "path") =>
    /\ \A n \in NodesOf(data) : Expanded(n) <=> (HasKids(n) /\ n \in PathSearched)
    /\ rendered = {root} \cup {n \in NodesOf(data) : Parent(data, n) \in PathSearched}

\* C28: every node with children in the loaded data holds its child list in
\* exactly one of children and _children, every node without children in
\* neither, so being a leaf never changes.
C28_ChildListInOnePlace ==
  data # 0 =>
    \A n \in NodesOf(data) :
       /\ HasKids(n) => /\ (children[n] = <<>>) # (_children[n] = <<>>)
                        /\ DataChildren(data, n) \in {children[n], _children[n]}
       /\ ~HasKids(n) => children[n] = <<>> /\ _children[n] = <<>>
       /\ isLeaf(St, n) <=> ~HasKids(n)

C28_Witness ==
  /\ data # 0
  /\ defaultLanding = "collapsed"
  /\ lastOp.op = "click"
  /\ Expanded(root)
  /\ \E n \in NodesOf(data) \ {root} : Expanded(n)
  /\ \E n \in NodesOf(data) \ {root} : _children[n] # <<>>
  /\ \E n \in rendered : isLeaf(St, n)

\* C29 (as stated): the selected node, if there is one, is in the visible
\* set: all of its proper ancestors are expanded.
C29_SelectedIsVisible ==
  (data # 0 /\ selectedNode # NoNode) =>
    /\ selectedNode \in rendered
    /\ \A a \in ProperAncestors(selectedNode) : Expanded(a)

\* C29 (amended): a click that collapses a proper ancestor of the selected
\* node leaves the selection as it is, so the selected node can be outside
\* the visible set; the rendered nodes marked active are then the part of
\* the chain still rendered, which runs from the root without a gap.
C29_SelectionSurvivesCollapse ==
  [][ ( /\ lastOp'.op = "click"
        /\ selectedNode # NoNode
        /\ lastOp'.node \in ProperAncestors(selectedNode)
        /\ Expanded(lastOp'.node)
        /\ ~CarriesContent(lastOp'.node) )
      => /\ selectedNode' = selectedNode
         /\ selectedNode' \notin rendered'
         /\ nodeActive' \cap rendered' =
              {a \in NodesOf(data) : /\ IsAncOrSelf(a, lastOp'.node)
                                     /\ a \in rendered'}
         /\ \A a \in (nodeActive' \cap rendered') \ {root} :
              Parent(data, a) \in nodeActive' \cap rendered' ]_vars

C29_Witness ==
  /\ data # 0
  /\ lastOp.op = "click"
  /\ selectedNode # NoNode
  /\ lastOp.node \in ProperAncestors(selectedNode)
  /\ ~Expanded(lastOp.node)
  /\ ~CarriesContent(lastOp.node)
  /\ selectedNode \notin rendered
  /\ lastOp.node \in nodeActive

\* C30: no step other than a direct selectNode call makes a node without
\* content the selected node: landing, clicks, the deferred selection,
\* renders and clearSelection keep the selection none or on a node that
\* carries content.
C30_OnlyContentNodesSelected ==
  [][ ( /\ lastOp'.op # "selectNode"
        /\ data # 0 => (selectedNode = NoNode \/ CarriesContent(selectedNode)) )
      => (selectedNode' = NoNode \/ Slug(data', selectedNode') \notin {JsNull, JsUndefined}) ]_vars

C30_Witness ==
  /\ data # 0
  /\ lastOp.op = "click"
  /\ ~CarriesContent(lastOp.node)
  /\ HasKids(lastOp.node)
  /\ selectedNode # NoNode
  /\ CarriesContent(selectedNode)
  /\ lastOp.node \notin ProperAncestors(selectedNode)
  /\ lastOp.node \in rendered

----------------------------------------------------------------------------
\* The node given to the last render as its source.
RenderSource == IF lastOp.op = "click" THEN lastOp.node ELSE root

\* The last step rendered the tree.
JustRendered ==
  \/ lastOp.op \in {"loadData", "resize"}
  \/ lastOp.op = "click" /\ (HasKids(lastOp.node) \/ lastOp.node = root)

\* C23 (as stated): on every render each entering node starts at its own
\* parent's previous position and each leaving node animates to its own
\* parent's new position, also more than one level below the toggled node.
C23_EnterAndLeaveAtOwnParent ==
  (data # 0 /\ JustRendered) =>
    /\ \A n \in (DOMAIN enterAt) \ {root} : enterAt[n] = Parent(data, n)
    /\ \A n \in DOMAIN exitTo : exitTo[n] = Parent(data, n)

\* C23 (amended): on every render each entering node starts at the previous
\* position of the render's source (the clicked node, the root on load and
\* resize), which is the node itself or one of its ancestors, and each
\* leaving element animates to the new position of that source.
C23_EnterAndLeaveAtSource ==
  (data # 0 /\ JustRendered) =>
    /\ \A n \in DOMAIN enterAt :
         /\ enterAt[n] = RenderSource
         /\ IsAncOrSelf(RenderSource, n)
         /\ n \in rendered
    /\ \A n \in DOMAIN exitTo : exitTo[n] = RenderSource /\ n \in exiting
    /\ DOMAIN exitTo = exiting

\* A click brought back a node two levels below the clicked node.
C23_Witness ==
  /\ data # 0
  /\ lastOp.op = "click"
  /\ \E n \in DOMAIN enterAt :
       /\ Depth(n) >= Depth(lastOp.node) + 2
       /\ enterAt[n] = lastOp.node
       /\ Parent(data, n) \in DOMAIN enterAt

AvailableWidth ==
  currentWidth - getCurrentMargin(St).left - getCurrentMargin(St).right

MaxVisibleDepth ==
  CHOOSE m \in {Depth(n) : n \in rendered} : \A n \in rendered : Depth(n) <= m

\* C24: the depth coordinate of each rendered node is its depth times the
\* available width divided by max(maximum visible depth, 4); for a
\* non-negative available width it lies between 0 and the available width,
\* and a tree of visible depth below 4 is spaced by a quarter of the width.
C24_DepthSpacing ==
  data # 0 =>
    \A n \in rendered :
       /\ y[n][2] > 0
       /\ y[n][1] * (IF MaxVisibleDepth > 4 THEN MaxVisibleDepth ELSE 4)
            = Depth(n) * AvailableWidth * y[n][2]
       /\ AvailableWidth >= 0 =>
            /\ 0 <= y[n][1]
            /\ y[n][1] <= AvailableWidth * y[n][2]
       /\ MaxVisibleDepth < 4 =>
            4 * y[n][1] = Depth(n) * AvailableWidth * y[n][2]

\* The deepest node of a tree five levels deep sits at the full width.
C24_Witness ==
  /\ data = DeepTree
  /\ lastOp.op = "resize"
  /\ AvailableWidth > 0
  /\ MaxVisibleDepth = 5
  /\ \E n \in rendered : Depth(n) = 5 /\ y[n][1] = AvailableWidth * y[n][2]
  /\ \E n \in rendered : Depth(n) = 1 /\ 5 * y[n][1] = AvailableWidth * y[n][2]

----------------------------------------------------------------------------
C25_WriteOnlyOnConsent ==
  [][ (tool'.file # tool.file \/ tool'.writes # tool.writes) =>
        /\ tool'.prompted
        /\ \/ toLowerCase(tool'.answer) \in {"y", "yes"}
           \/ /\ toLowerCase(tool'.answer) \in {"c", "custom"}
              /\ tool'.name # ""
        /\ tool'.pc = "done" ]_vars

\* The custom option wrote a category under a node picked by number.
C25_Witness ==
  /\ tool.pc = "done"
  /\ tool.prompted
  /\ tool.answer = "Custom"
  /\ tool.name = "Gusts"
  /\ tool.writes = 1
  /\ Len(tool.file) = Len(TreeFile) + 1
  /\ tool.file[Len(tool.file)].name = "Gusts"
  /\ tool.file[Len(tool.file)].parent = 2

----------------------------------------------------------------------------
\* Most node clicks in a sequence that is searched for.
MaxClicks == 4

\* The engine after the user clicks the element of node d.
Clicked(s, d) == handleNodeClick([s EXCEPT !.calls = <<>>], d)

\* n is selected and the last click reported it, or some click on an element
\* in the DOM leads, within k clicks, to a state where that is so.
RECURSIVE SelectableWithin(_, _, _)
SelectableWithin(s, n, k) ==
  \/ /\ s.selectedNode = n
     /\ <<Slug(s.data, n), Name(s.data, n)>> \in Range(s.calls)
  \/ /\ k > 0
     /\ \E d \in s.rendered \cup s.exiting :
          SelectableWithin(Clicked(s, d), n, k - 1)

\* C31 (as stated): for every loaded tree, a single-root tree included, every
\* landing policy and every node with a non-empty slug, some finite sequence
\* of node clicks ends with that node selected and the selection callback
\* invoked for it.
C31_EveryContentNodeSelectable ==
  (data # 0 /\ lastOp.op = "loadData") =>
    \A n \in NodesOf(data) :
      Truthy(Slug(data, n)) => SelectableWithin(St, n, MaxClicks)

----------------------------------------------------------------------------
\* C32 (as stated): once Escape or a click outside has hidden the panel and
\* cleared the selection, no step makes the panel visible while no node is
\* selected; a content fetch still in flight when the panel was closed does
\* not bring it back.
C32_ClosedPanelStaysHidden ==
  [][ (~visible /\ selectedNode = NoNode /\ selectedNode' = NoNode)
        => ~visible' ]_vars

----------------------------------------------------------------------------
\* C33 (as stated): when the deferred default-selection timer fires after the
\* user has selected another node by a click, the selected node stays the
\* node the user clicked, the callback is not invoked and no content load is
\* started for the default node.
C33_UserSelectionKept ==
  [][ (lastOp'.op = "timer" /\ selectedNode \notin {NoNode, timer})
        => /\ selectedNode' = selectedNode
           /\ calls' = <<>>
           /\ pending' = pending ]_vars

----------------------------------------------------------------------------
\* The last operation ended by rendering the error placeholder.
ErrorRendered ==
  \/ LoadFailed
  \/ /\ panelOp.op = "loadContentStatic"
     /\ panelOp.slug \notin DOMAIN ContentCatalog

\* C34 (as stated): whenever the most recent render is the error
\* placeholder, the image container is displayed and holds the placeholder
\* graphic, the description reads that the content could not be loaded, and
\* body, meta and footer are empty.
C34_ErrorPlaceholderShown ==
  ErrorRendered =>
    /\ dom.imageDisplay # "none"
    /\ dom.imageKind = "placeholder"
    /\ dom.description = "Content could not be loaded."
    /\ dom.descDisplay = "block"
    /\ dom.body = <<>>
    /\ dom.meta = <<>>
    /\ dom.references = <<>>
    /\ dom.resources = <<>>

\* A panel whose every field carries a mark no record contains.
StaleDom ==
  [title |-> "stale", meta |-> << [kind |-> "stale", val |-> <<>>] >>,
   description |-> "stale", descDisplay |-> "stale", imageKind |-> "stale",
   imageSrc |-> "stale", imageAlt |-> "stale", imageDisplay |-> "stale",
   body |-> << Para("stale") >>, references |-> <<"stale">>,
   resources |-> << [kind |-> "stale", href |-> <<>>, text |-> <<>>] >>]

\* The operation that led to the primed state rendered a record and
\* returned.
RenderReturned ==
  \/ LoadRendered'
  \/ /\ panelOp'.op = "loadContentStatic"
     /\ panelOp'.slug \in DOMAIN store
     /\ ~panelOp'.escaped

\* The record that operation handed to renderContent.
RenderedRecord ==
  IF panelOp'.op = "settle" THEN ContentCatalog[panelOp'.slug]
  ELSE store[panelOp'.slug]

\* C35: after renderContent returns, every field of the panel is what the
\* record and the fallback name give on any panel whatever: rendering over
\* a panel marked stale in every field yields the same fields, none of them
\* stale, so nothing of the earlier record or error placeholder remains.
C35_RenderOverwritesEveryField ==
  [][ RenderReturned =>
        /\ dom' = renderContent(StaleDom, RenderedRecord, panelOp'.name).dom
        /\ \A f \in DOMAIN dom' : dom'[f] # StaleDom[f] ]_vars

\* 'Bicycles' (no date, no description, no paragraph, no image, no
\* reference) rendered after 'minerals' had been rendered from the bundle.
C35_Witness ==
  /\ panelOp.op = "loadContentStatic"
  /\ panelOp.slug = "bicycles"
  /\ ~panelOp.escaped
  /\ store["minerals"].content # ContentCatalog["minerals"].content
  /\ dom.title = "Bicycles"
  /\ dom.meta = <<>>
  /\ dom.description = ""
  /\ dom.descDisplay = "none"
  /\ dom.imageKind = "none"
  /\ dom.imageDisplay = "none"
  /\ dom.references = <<>>
  /\ Len(dom.resources) = 2

----------------------------------------------------------------------------
\* C36: a container resize after the tree is loaded renders again (every
\* visible node gets a position for the new width) and changes no node's
\* expand state, not the visible set, not the selected node, and invokes no
\* selection callback.
C36_ResizeKeepsTreeState ==
  [][ (lastOp'.op = "resize" /\ data # 0) =>
        /\ UNCHANGED << data, children, _children, selectedNode,
                        isTreeExpanded, rendered, timer >>
        /\ calls' = <<>>
        /\ DOMAIN y' = rendered
        /\ \A n \in rendered :
             y'[n][1] = Depth(n) * (currentWidth' - getCurrentMargin(St').left
                                      - getCurrentMargin(St').right) ]_vars

\* A resize to the narrow window with the root selected and part of the
\* tree collapsed.
C36_Witness ==
  /\ lastOp.op = "resize"
  /\ data = DeepTree
  /\ breakpoint = "mobile"
  /\ currentWidth = 400
  /\ selectedNode = root
  /\ \E n \in NodesOf(data) : _children[n] # <<>> /\ n \in rendered
  /\ rendered # NodesOf(data)
  /\ DOMAIN y = rendered

----------------------------------------------------------------------------
\* The node at the location the user picked by number in the list that the
\* custom mode prints: the entries of extractAllNodes in order, then 'Root
\* level'; any other number stands for the root.
PickedLocation(tree, choice) ==
  LET shown == extractAllNodes(tree)
  IN IF choice \in 1..Len(shown) THEN shown[choice] ELSE 1

\* C37 (as stated): in custom mode the node that is written is appended as a
\* child of exactly the node at the picked location, also when several
\* nodes at different locations share a name.
C37_CustomNodeUnderPickedLocation ==
  [][ (tool.pc = "custom" /\ tool'.writes = tool.writes + 1) =>
        tool'.file =
          Append(tool.tree,
                 TreeNode(tool'.name, tool.content.slug,
                          PickedLocation(tool.tree, tool'.choice))) ]_vars

----------------------------------------------------------------------------
\* The tree file holds a node for the Markdown file with slug f.
InFile(f) == \E i \in 1..Len(watch.file) : watch.file[i].slug = f

\* Run f is over, the user accepted its recommendation and the run saved
\* the tree with the new node.
ConfirmedAndSaved(f) ==
  /\ watch.runs[f].pc = "done"
  /\ watch.runs[f].action = "confirm"
  /\ watch.runs[f].saved

\* C38 (as stated): in watch mode, when two new files appear and the user
\* confirms both categorizations, the saved tree file finally holds both
\* new nodes, however the two runs of categorizeFile interleave.
C38_BothConfirmedNodesSaved ==
  (\A f \in Files : ConfirmedAndSaved(f)) => \A f \in Files : InFile(f)

====
